---------------------------- MODULE Spec2Model ----------------------------
(*************************************************************************)
(* Model of the arbitrage bots of this repository:                       *)
(*   - bsc_arbitrage.demo.py  (price monitor, check_arbitrage, main)     *)
(*   - bsc_arbitrage.live.py  (ArbitrageBot: find_arbitrage_opportunity, *)
(*     execute_arbitrage_v2, run, main)                                  *)
(*   - database.py / database_live.py (ArbitrageDatabase)                *)
(*                                                                       *)
(* The scripts compute with Python floats.  The model computes the same  *)
(* expressions over exact rationals (numerator/denominator held as       *)
(* base-10000 digit sequences), so every comparison the code makes is    *)
(* decided exactly; the quotes of the model are chosen away from the     *)
(* points where float rounding could change a comparison.                *)
(*************************************************************************)
EXTENDS Integers, Sequences, FiniteSets, TLC

(*************************************************************************)
(* Exact arithmetic.  A natural number is a little-endian sequence of    *)
(* base-Base digits without leading zeros (<<>> is 0).                   *)
(*************************************************************************)
Base == 100 * 100

Digits == Seq(Nat)

BigOf[i \in Nat] ==
    IF i = 0 THEN <<>> ELSE <<i % Base>> \o BigOf[i \div Base]

BigAddC[a \in Digits, b \in Digits, c \in Nat] ==
    IF a = <<>> /\ b = <<>>
    THEN (IF c = 0 THEN <<>> ELSE <<c>>)
    ELSE LET x == IF a = <<>> THEN 0 ELSE Head(a)
             y == IF b = <<>> THEN 0 ELSE Head(b)
             s == x + y + c
         IN  <<s % Base>> \o BigAddC[IF a = <<>> THEN <<>> ELSE Tail(a),
                                     IF b = <<>> THEN <<>> ELSE Tail(b),
                                     s \div Base]

BigAdd(a, b) == BigAddC[a, b, 0]

\* a * k + c for one digit k
BigMulDigit[a \in Digits, k \in Nat, c \in Nat] ==
    IF a = <<>>
    THEN (IF c = 0 THEN <<>> ELSE <<c>>)
    ELSE LET s == Head(a) * k + c
         IN  <<s % Base>> \o BigMulDigit[Tail(a), k, s \div Base]

BigMulF[a \in Digits, b \in Digits] ==
    IF a = <<>> \/ b = <<>> THEN <<>>
    ELSE LET low  == IF Head(b) = 0 THEN <<>> ELSE BigMulDigit[a, Head(b), 0]
             rest == BigMulF[a, Tail(b)]
         IN  BigAdd(low, IF rest = <<>> THEN <<>> ELSE <<0>> \o rest)

BigMul(a, b) == BigMulF[a, b]

\* -1, 0, 1 as a < b, a = b, a > b, on the digits 1..i
BigCmpFrom[a \in Digits, b \in Digits, i \in Nat] ==
    IF i = 0 THEN 0
    ELSE IF a[i] > b[i] THEN 1
    ELSE IF a[i] < b[i] THEN -1
    ELSE BigCmpFrom[a, b, i - 1]

BigCmp(a, b) ==
    IF Len(a) > Len(b) THEN 1
    ELSE IF Len(a) < Len(b) THEN -1
    ELSE BigCmpFrom[a, b, Len(a)]

(*************************************************************************)
(* A rational is [p, n, d] and stands for (p - n) / d with d > 0.        *)
(*************************************************************************)
Rat(i, den) == [p |-> BigOf[i], n |-> <<>>, d |-> BigOf[den]]

RNeg(x) == [p |-> x.n, n |-> x.p, d |-> x.d]

RAdd(x, y) == [p |-> BigAdd(BigMul(x.p, y.d), BigMul(y.p, x.d)),
               n |-> BigAdd(BigMul(x.n, y.d), BigMul(y.n, x.d)),
               d |-> BigMul(x.d, y.d)]

RSub(x, y) == RAdd(x, RNeg(y))

RMul(x, y) == [p |-> BigAdd(BigMul(x.p, y.p), BigMul(x.n, y.n)),
               n |-> BigAdd(BigMul(x.p, y.n), BigMul(x.n, y.p)),
               d |-> BigMul(x.d, y.d)]

\* -1, 0, 1 as x < 0, x = 0, x > 0
RSign(x) == BigCmp(x.p, x.n)

\* x / y for a divisor y > 0 held as [p, <<>>, d]
RDiv(x, y) == [p |-> BigMul(x.p, y.d),
               n |-> BigMul(x.n, y.d),
               d |-> BigMul(x.d, y.p)]

\* -1, 0, 1 as x < y, x = y, x > y
RCmp(x, y) == BigCmp(BigAdd(BigMul(x.p, y.d), BigMul(y.n, x.d)),
                     BigAdd(BigMul(y.p, x.d), BigMul(x.n, y.d)))

RGt(x, y) == RCmp(x, y) = 1
RGe(x, y) == RCmp(x, y) >= 0
REq(x, y) == RCmp(x, y) = 0
RLt(x, y) == RCmp(x, y) = -1

RAbs(x) == IF RSign(x) >= 0 THEN x ELSE RNeg(x)

ROne == Rat(1, 1)
RHundred == Rat(100, 1)

\* a - b for a >= b
BigSubB[a \in Digits, b \in Digits, c \in Nat] ==
    IF a = <<>> THEN <<>>
    ELSE LET y == IF b = <<>> THEN 0 ELSE Head(b)
             s == Head(a) - y - c
         IN  <<IF s < 0 THEN s + Base ELSE s>>
             \o BigSubB[Tail(a), IF b = <<>> THEN <<>> ELSE Tail(b),
                        IF s < 0 THEN 1 ELSE 0]

BigTrim[a \in Digits] ==
    IF a = <<>> THEN <<>>
    ELSE IF a[Len(a)] = 0 THEN BigTrim[SubSeq(a, 1, Len(a) - 1)]
    ELSE a

BigSub(a, b) == BigTrim[BigSubB[a, b, 0]]

\* the greatest k in lo..hi with b * k <= r  (b * lo <= r is given)
BigQuotDigit[r \in Digits, b \in Digits, lo \in Nat, hi \in Nat] ==
    IF lo = hi THEN lo
    ELSE LET mid == (lo + hi + 1) \div 2
         IN  IF BigCmp(BigMulDigit[b, mid, 0], r) <= 0
             THEN BigQuotDigit[r, b, mid, hi]
             ELSE BigQuotDigit[r, b, lo, mid - 1]

\* long division: <<quotient, remainder>> of the digits i.. of a by b > 0
BigDivStep[a \in Digits, b \in Digits, i \in Nat] ==
    IF i > Len(a) THEN <<(<<>>), (<<>>)>>
    ELSE LET up  == BigDivStep[a, b, i + 1]
             r   == BigTrim[<<a[i]>> \o up[2]]
             q   == BigQuotDigit[r, b, 0, Base - 1]
             r2  == BigSub(r, BigMulDigit[b, q, 0])
         IN  <<BigTrim[<<q>> \o up[1]], r2>>

BigDivFloor(a, b) == BigDivStep[a, b, 1][1]

(*************************************************************************)
(* Values shared by both bots.  Python's None and an empty dict are both *)
(* falsy and are both held as the empty function; a database id that is *)
(* None is held as 0 (ids are SERIAL, from 1).                           *)
(*************************************************************************)
None == <<>>

\* A quote is the BUSD amount getAmountsOut returns for 1 WBNB, in units of
\* 10^12 wei; 0 stands for a call that raised (None) or returned 0, which
\* the callers treat alike (`if pancake_price:`, `if busd_for_wbnb:`).
amount_in == 1000000

\* 600.00, 602.20 and 602.50 BUSD per WBNB, and two quotes at which the net
\* profit of the demo bot is exactly its threshold of 0.01 BUSD: buying at
\* 568.917513 and selling at 571.48
Quotes == {0, 600000000, 602200000, 602500000, 568917513, 571480000}

Venues == {"pancakeswap", "biswap"}

QuoteMaps == [Venues -> Quotes]

(*************************************************************************)
(* bsc_arbitrage.demo.py                                                 *)
(*************************************************************************)
FLASH_LOAN_AMOUNT_USD == 1000
GAS_COST_USD == Rat(8, 100)
FLASH_LOAN_FEE == Rat(9, 10000)
MIN_PROFIT_THRESHOLD == Rat(1, 100)
PANCAKESWAP_FEE == Rat(25, 10000)
BISWAP_FEE == Rat(1, 1000)

\* Web3PriceFetcher.get_price_from_router: amounts[1] / amounts[0], or None
get_price_from_router(q) ==
    IF q = 0 THEN None ELSE Rat(q, amount_in)

\* Web3PriceFetcher.get_wbnb_price_busd: both prices, or None
get_wbnb_price_busd(connected, amounts) ==
    IF ~connected THEN None
    ELSE LET got    == {v \in Venues : get_price_from_router(amounts[v]) # None}
             fetched == [v \in got |-> get_price_from_router(amounts[v])]
         IN  IF Cardinality(DOMAIN fetched) = 2 THEN fetched ELSE None

\* a mutation of Demo_simulate: the gas cost is not deducted
Demo_simulate_gasless(loan_fee, gas, price_buy, price_sell, buy_fee, sell_fee) ==
    LET loan              == Rat(FLASH_LOAN_AMOUNT_USD, 1)
        flash_loan_fee    == RMul(loan, loan_fee)
        effective_capital == RSub(loan, flash_loan_fee)
        tokens_bought     == RMul(RDiv(effective_capital, price_buy),
                                  RSub(ROne, buy_fee))
        tokens_after_sell_fee == RMul(tokens_bought, RSub(ROne, sell_fee))
        usd_return        == RMul(tokens_after_sell_fee, price_sell)
        gross_profit      == RSub(usd_return, loan)
        roi               == RMul(RDiv(gross_profit, loan), RHundred)
    IN  [tokens |-> tokens_bought, usd_out |-> usd_return,
         gross |-> gross_profit, net |-> gross_profit, roi |-> roi]

\* the body of simulate_flash_arbitrage (lines 157-168) as a function of
\* the two module globals it reads besides the loan amount: FLASH_LOAN_FEE
\* (loan_fee) and GAS_COST_USD (gas)
Demo_simulate(loan_fee, gas, price_buy, price_sell, buy_fee, sell_fee) ==
    LET loan              == Rat(FLASH_LOAN_AMOUNT_USD, 1)
        flash_loan_fee    == RMul(loan, loan_fee)
        effective_capital == RSub(loan, flash_loan_fee)
        tokens_bought     == RMul(RDiv(effective_capital, price_buy),
                                  RSub(ROne, buy_fee))
        tokens_after_sell_fee == RMul(tokens_bought, RSub(ROne, sell_fee))
        usd_return        == RMul(tokens_after_sell_fee, price_sell)
        gross_profit      == RSub(usd_return, loan)
        net_profit        == RSub(gross_profit, gas)
        roi               == RMul(RDiv(net_profit, loan), RHundred)
    IN  [tokens |-> tokens_bought, usd_out |-> usd_return,
         gross |-> gross_profit, net |-> net_profit, roi |-> roi]

simulate_flash_arbitrage(price_buy, price_sell, buy_fee, sell_fee) ==
    Demo_simulate(FLASH_LOAN_FEE, GAS_COST_USD, price_buy, price_sell,
                  buy_fee, sell_fee)

\* a mutation of Demo_clears: the comparison the wrong way round
Demo_clears_reversed(net) == RLt(net, MIN_PROFIT_THRESHOLD)

\* a mutation of Demo_clears: every direction is taken to clear
Demo_clears_all(net) == TRUE

\* a mutation of Demo_clears: the threshold taken as an inclusive bound
Demo_clears_inclusive(net) == RGe(net, MIN_PROFIT_THRESHOLD)

\* the `if net > MIN_PROFIT_THRESHOLD` of both directions
Demo_clears(net) == RGt(net, MIN_PROFIT_THRESHOLD)

\* the `if not best_opp or net > best_opp["net"]` of the second direction
Demo_replaces(best_opp, net) == best_opp = None \/ RGt(net, best_opp.net)

\* the dict built at lines 185-196 and 204-215
Demo_opportunity(buy_dex, sell_dex, buy_price, sell_price, spread, sim) ==
    [buy_dex |-> buy_dex, sell_dex |-> sell_dex,
     buy_price |-> buy_price, sell_price |-> sell_price,
     spread |-> spread, tokens |-> sim.tokens, usd_out |-> sim.usd_out,
     gross |-> sim.gross, net |-> sim.net, roi |-> sim.roi]

\* lines 180-196: buy on PancakeSwap, sell on BiSwap
Demo_first(pancake, biswap, sim) ==
    IF Demo_clears(sim.net)
    THEN Demo_opportunity("PancakeSwap", "BiSwap", pancake, biswap,
             RMul(RDiv(RSub(biswap, pancake), pancake), RHundred), sim)
    ELSE None

\* lines 198-215: buy on BiSwap, sell on PancakeSwap
Demo_second(pancake, biswap, best_opp, sim) ==
    IF Demo_clears(sim.net) /\ Demo_replaces(best_opp, sim.net)
    THEN Demo_opportunity("BiSwap", "PancakeSwap", biswap, pancake,
             RMul(RDiv(RSub(pancake, biswap), biswap), RHundred), sim)
    ELSE best_opp

check_arbitrage(p) ==
    Demo_second(p["pancakeswap"], p["biswap"],
        Demo_first(p["pancakeswap"], p["biswap"],
            simulate_flash_arbitrage(p["pancakeswap"], p["biswap"],
                                     PANCAKESWAP_FEE, BISWAP_FEE)),
        simulate_flash_arbitrage(p["biswap"], p["pancakeswap"],
                                 BISWAP_FEE, PANCAKESWAP_FEE))

\* check_arbitrage is a pure function of the prices: its value for every
\* pair of quotes the model draws, computed once (f @@ <<>> is f, held by
\* TLC as a table rather than recomputed at each application)
Demo_evaluations ==
    [q \in {m \in QuoteMaps : get_wbnb_price_busd(TRUE, m) # None} |->
        check_arbitrage(get_wbnb_price_busd(TRUE, q))] @@ <<>>

\* the net profit check_arbitrage computes for each direction (lines 180
\* and 198), keyed by <<buy venue, sell venue>>, for every pair of quotes
Demo_nets ==
    [q \in {m \in QuoteMaps : get_wbnb_price_busd(TRUE, m) # None} |->
        (<<"pancakeswap", "biswap">> :>
            simulate_flash_arbitrage(
                get_wbnb_price_busd(TRUE, q)["pancakeswap"],
                get_wbnb_price_busd(TRUE, q)["biswap"],
                PANCAKESWAP_FEE, BISWAP_FEE).net)
        @@ (<<"biswap", "pancakeswap">> :>
            simulate_flash_arbitrage(
                get_wbnb_price_busd(TRUE, q)["biswap"],
                get_wbnb_price_busd(TRUE, q)["pancakeswap"],
                BISWAP_FEE, PANCAKESWAP_FEE).net)] @@ <<>>

\* the venue fee check_arbitrage passes for a venue (lines 182, 200)
Demo_fee(v) == IF v = "pancakeswap" THEN PANCAKESWAP_FEE ELSE BISWAP_FEE

\* the ordered pairs of distinct venues
VenuePairs == {k \in Venues \X Venues : k[1] # k[2]}

\* the quotes with which both venues answered
QuotedMaps == {m \in QuoteMaps : \A v \in Venues : m[v] # 0}

\* values of the fixed execution cost and of the borrowing fee rate, in
\* ascending order; the values of the source are GAS_COST_USD = 0.08 and
\* FLASH_LOAN_FEE = 0.0009 (demo), gas_cost_usd = 0.08 and flash_loan_fee =
\* 0.0 (live)
GasCosts == <<Rat(8, 100), Rat(9, 100)>>

FeeRates == <<Rat(0, 1), Rat(9, 10000)>>

\* the pairs <<i, j>> of a fee rate FeeRates[i] and a gas cost GasCosts[j]
CostGrid == (DOMAIN FeeRates) \X (DOMAIN GasCosts)

\* the net profit simulate_flash_arbitrage computes for each pair of venues
\* of the quotes q when the globals hold FeeRates[i] and GasCosts[j]
Demo_nets_at(q, i, j) ==
    [k \in VenuePairs |->
        Demo_simulate(FeeRates[i], GasCosts[j],
                      get_price_from_router(q[k[1]]),
                      get_price_from_router(q[k[2]]),
                      Demo_fee(k[1]), Demo_fee(k[2])).net] @@ <<>>

\* is a sequence of net profits strictly decreasing?
StrictlyDecreasing(nets) ==
    \A i \in 1..(Len(nets) - 1) : RGt(nets[i], nets[i + 1])

\* grid[<<i, j>>][k] is the net profit of the pair k at FeeRates[i] and
\* GasCosts[j]: every pair's net profit falls strictly as the gas cost
\* rises, at each fee rate, and as the fee rate rises, at each gas cost
CostMonotone(grid) ==
    \A k \in VenuePairs :
       /\ \A i \in DOMAIN FeeRates :
             StrictlyDecreasing([j \in DOMAIN GasCosts |-> grid[<<i, j>>][k]])
       /\ \A j \in DOMAIN GasCosts :
             StrictlyDecreasing([i \in DOMAIN FeeRates |-> grid[<<i, j>>][k]])

\* CostMonotone of the demo bot's simulations and their net profits at the
\* values of the source (FeeRates[2], GasCosts[1]), for every pair of
\* quotes the model draws, computed once
Demo_cost_checks ==
    [q \in QuotedMaps |->
        CHOOSE c \in {[grid |-> t, monotone |-> CostMonotone(t)] :
                        t \in {[g \in CostGrid |->
                                   Demo_nets_at(q, g[1], g[2])] @@ <<>>}} :
           TRUE] @@ <<>>

\* one call of check_arbitrage in main: best_opp starts as None (line 178)
\* and the function reads its argument and the module constants only, so
\* the opportunity of an earlier pass (previous) has no part in it
Demo_evaluate(amounts, previous) == Demo_evaluations[amounts]

\* the name check_arbitrage gives a venue in buy_dex / sell_dex
Demo_dex(v) == IF v = "pancakeswap" THEN "PancakeSwap" ELSE "BiSwap"

(*************************************************************************)
(* bsc_arbitrage.live.py                                                 *)
(*************************************************************************)
TRADING_CONFIG ==
    [borrow_token   |-> "BUSD",
     trade_token    |-> "WBNB",
     borrow_amount  |-> 1000,
     min_profit     |-> Rat(1, 100),
     min_spread_pct |-> Rat(37, 100),
     flash_loan_fee |-> Rat(0, 1),
     gas_cost_usd   |-> Rat(8, 100)]

\* The configurations the bot is started with: the one of the source, and
\* two malformed ones (a trade token without an address, a borrow amount
\* that is not positive).
Configs ==
    {TRADING_CONFIG,
     [TRADING_CONFIG EXCEPT !.trade_token = "CAKE"],
     [TRADING_CONFIG EXCEPT !.borrow_amount = 0]}

\* self.mainnet_tokens.get(symbol) on CONTRACT_CONFIG["bsc_mainnet"]["tokens"];
\* "" stands for the None of a missing symbol (both are falsy)
mainnet_tokens(symbol) ==
    CASE symbol = "WBNB" -> "0xbb4CdB9CBd36B01bD1cBaEBF2De08d9173bc095c"
      [] symbol = "BUSD" -> "0xe9e7CEA3DedcA5984780Bafc599bD69ADd087D56"
      [] symbol = "USDT" -> "0x55d398326f99059fF775485246999027B3197955"
      [] OTHER -> ""

\* check_arbitrage with the borrowing fee rate and the gas cost as
\* parameters (lines 170-217; the threshold stays MIN_PROFIT_THRESHOLD)
Demo_check_at(loan_fee, gas, p) ==
    Demo_second(p["pancakeswap"], p["biswap"],
        Demo_first(p["pancakeswap"], p["biswap"],
            Demo_simulate(loan_fee, gas, p["pancakeswap"], p["biswap"],
                          PANCAKESWAP_FEE, BISWAP_FEE)),
        Demo_simulate(loan_fee, gas, p["biswap"], p["pancakeswap"],
                      BISWAP_FEE, PANCAKESWAP_FEE))

\* what check_arbitrage gives for each pair of quotes when FLASH_LOAN_FEE
\* and GAS_COST_USD are the flash_loan_fee and gas_cost_usd of
\* TRADING_CONFIG
Demo_evaluations_at_live_costs ==
    [q \in QuotedMaps |->
        Demo_check_at(TRADING_CONFIG.flash_loan_fee,
                      TRADING_CONFIG.gas_cost_usd,
                      get_wbnb_price_busd(TRUE, q))] @@ <<>>

\* a configuration the bot cannot trade with: the borrow amount is not
\* positive, or a token symbol has no address in the token table
Malformed(c) ==
    \/ c.borrow_amount <= 0
    \/ mainnet_tokens(c.borrow_token) = ""
    \/ mainnet_tokens(c.trade_token) = ""

\* list(self.mainnet_routers.keys())
router_names == <<"pancakeswap", "biswap">>

PANCAKE_FEE == Rat(25, 10000)
Live_BISWAP_FEE == Rat(1, 1000)

WeiPerEther == BigMul(BigOf[1000000000], BigOf[1000000000])

\* w3.to_wei(x, 'ether') for x >= 0: the whole number of wei, rounded down
to_wei(x) ==
    [p |-> BigDivFloor(BigMul(BigSub(x.p, x.n), WeiPerEther), x.d),
     n |-> <<>>, d |-> <<1>>]

\* `to_wei(v) if v >= 0 else -to_wei(abs(v))`
to_wei_signed(x) ==
    IF RSign(x) >= 0 THEN to_wei(x) ELSE RNeg(to_wei(RAbs(x)))

\* w3.from_wei(w, 'ether')
from_wei(w) == [p |-> w.p, n |-> w.n, d |-> WeiPerEther]

\* a mutation of Live_collect: a failed quote is kept as a price of 0
Live_collect_all(amounts) == [r \in Venues |-> Rat(amounts[r], amount_in)]

\* the prices collected by the loop over router_names (lines 362-369):
\* get_mainnet_price gives amounts[-1] or None, `if busd_for_wbnb:` keeps
\* the truthy ones, from_wei turns them into BUSD per WBNB
Live_collect(amounts) ==
    LET got == {r \in Venues : amounts[r] # 0}
    IN  [r \in got |-> Rat(amounts[r], amount_in)]

\* the dict every return of find_arbitrage_opportunity builds; a Python dict
\* keeps its keys in insertion order, held in `order` for the path keys of
\* all_spreads / all_profits
EmptyResult ==
    [prices |-> None, spreads |-> None, profits |-> None,
     opportunity |-> None, raised |-> FALSE, order |-> <<>>]

\* the ordered pairs of the two nested loops over router_names, in the
\* order the loops visit them
PairsFrom[k \in Nat] ==
    LET n == Len(router_names)
        i == ((k - 1) \div n) + 1
        j == ((k - 1) % n) + 1
    IN  IF k = 0 \/ k > n * n THEN <<>>
        ELSE (IF i = j THEN <<>>
              ELSE << <<router_names[i], router_names[j]>> >>)
             \o PairsFrom[k + 1]

\* a mutation of path_key: both directions of a pair share one key
path_key_undirected(buy_router, sell_router) ==
    IF buy_router = router_names[1] THEN <<buy_router, sell_router>>
    ELSE <<sell_router, buy_router>>

\* path_key = f"{buy_router}_to_{sell_router}"
path_key(buy_router, sell_router) == <<buy_router, sell_router>>

\* a mutation of Live_promising: no pair passes the pre-filter
Live_promising_never(config, spread) == FALSE

\* the pre-filter `abs(spread) > TRADING_CONFIG["min_spread_pct"]`
Live_promising(config, spread) == RGt(RAbs(spread), config.min_spread_pct)

\* a mutation of Live_replaces: the first promising pair is kept
Live_replaces_first(best_opportunity, spread) == best_opportunity = None

\* `best_opportunity is None or abs(spread) > abs(best_opportunity["spread"])`
Live_replaces(best_opportunity, spread) ==
    \/ best_opportunity = None
    \/ RGt(RAbs(spread), RAbs(best_opportunity.spread))

\* one pass of the loop body (lines 388-463) on the accumulated result
Live_pair(config, wbnb_prices, acc, buy_router, sell_router) ==
    IF acc.raised THEN acc
    ELSE IF buy_router \notin DOMAIN wbnb_prices
            \/ sell_router \notin DOMAIN wbnb_prices THEN acc
    ELSE IF config.borrow_amount = 0
    THEN [acc EXCEPT !.raised = TRUE]    \* roi: ZeroDivisionError
    ELSE
    LET buy_price  == wbnb_prices[buy_router]
        sell_price == wbnb_prices[sell_router]
        buy_fee  == IF buy_router = "pancakeswap"
                    THEN PANCAKE_FEE ELSE Live_BISWAP_FEE
        sell_fee == IF sell_router = "pancakeswap"
                    THEN PANCAKE_FEE ELSE Live_BISWAP_FEE
        borrowed == Rat(config.borrow_amount, 1)
        tokens_bought == RMul(RDiv(borrowed, buy_price), RSub(ROne, buy_fee))
        tokens_after_sell_fee == RMul(tokens_bought, RSub(ROne, sell_fee))
        usd_return == RMul(tokens_after_sell_fee, sell_price)
        dodo_repay == RMul(borrowed, RAdd(ROne, config.flash_loan_fee))
        gross_profit == RSub(usd_return, dodo_repay)
        net_profit == RSub(gross_profit, config.gas_cost_usd)
        spread == RMul(RDiv(RSub(sell_price, buy_price), buy_price), RHundred)
        key == path_key(buy_router, sell_router)
        all_spreads == [k \in (DOMAIN acc.spreads) \cup {key} |->
                          IF k = key THEN spread ELSE acc.spreads[k]]
        all_profits == [k \in (DOMAIN acc.profits) \cup {key} |->
                          IF k = key THEN to_wei_signed(net_profit)
                          ELSE acc.profits[k]]
        best == IF Live_promising(config, spread)
                   /\ Live_replaces(acc.opportunity, spread)
                THEN [buy_router |-> buy_router,
                      sell_router |-> sell_router,
                      borrow_amount |-> to_wei(borrowed),
                      intermediate_amount |-> to_wei(tokens_bought),
                      final_amount |-> to_wei(usd_return),
                      spread |-> spread,
                      estimated_gross_profit |-> to_wei_signed(gross_profit),
                      estimated_net_profit |-> to_wei_signed(net_profit),
                      buy_price |-> buy_price,
                      sell_price |-> sell_price]
                ELSE acc.opportunity
    IN  [acc EXCEPT !.spreads = all_spreads, !.profits = all_profits,
                    !.opportunity = best, !.order = Append(acc.order, key)]

\* a mutation of Live_pairs: the pairs are visited last to first
Live_pairs_reversed(config, wbnb_prices, pairs) ==
    LET after[k \in 0..Len(pairs)] ==
            IF k = 0 THEN [EmptyResult EXCEPT !.prices = wbnb_prices]
            ELSE Live_pair(config, wbnb_prices, after[k - 1],
                           pairs[Len(pairs) + 1 - k][1],
                           pairs[Len(pairs) + 1 - k][2])
    IN  after[Len(pairs)]

\* the loops of lines 386-392 over the pairs, from the empty result
Live_pairs(config, wbnb_prices, pairs) ==
    LET after[k \in 0..Len(pairs)] ==
            IF k = 0 THEN [EmptyResult EXCEPT !.prices = wbnb_prices]
            ELSE Live_pair(config, wbnb_prices, after[k - 1],
                           pairs[k][1], pairs[k][2])
    IN  after[Len(pairs)]

find_arbitrage_opportunity(config, amounts) ==
    IF mainnet_tokens(config.borrow_token) = ""
       \/ mainnet_tokens(config.trade_token) = ""
    THEN EmptyResult
    ELSE IF Cardinality(DOMAIN Live_collect(amounts)) < 2 THEN EmptyResult
    ELSE Live_pairs(config, Live_collect(amounts), PairsFrom[1])

\* TRADING_CONFIG with the borrowing fee rate FeeRates[i] and the gas cost
\* GasCosts[j]
Live_config_at(i, j) ==
    [TRADING_CONFIG EXCEPT !.flash_loan_fee = FeeRates[i],
                           !.gas_cost_usd = GasCosts[j]]

\* the net profits (in wei) find_arbitrage_opportunity records for the
\* quotes q under Live_config_at(i, j) and their CostMonotone, for every
\* pair of quotes the model draws, computed once; TRADING_CONFIG itself is
\* Live_config_at(1, 1)
Live_cost_checks ==
    [q \in QuotedMaps |->
        CHOOSE c \in {[grid |-> t, monotone |-> CostMonotone(t)] :
                        t \in {[g \in CostGrid |->
                                   find_arbitrage_opportunity(
                                       Live_config_at(g[1], g[2]), q).profits]
                                @@ <<>>}} :
           TRUE] @@ <<>>

\* find_arbitrage_opportunity reads TRADING_CONFIG and the quotes and nothing
\* else: its value for every configuration and quotes the model draws,
\* computed once
Live_evaluations ==
    [c \in Configs |->
        [q \in QuoteMaps |-> find_arbitrage_opportunity(c, q)] @@ <<>>] @@ <<>>

\* a mutation of Live_evaluate: an Opportunity found earlier is kept
Live_evaluate_sticky(config, amounts, previous) ==
    IF previous.opportunity # None THEN previous
    ELSE Live_evaluations[config][amounts]

\* one call of self.find_arbitrage_opportunity() in run: wbnb_prices,
\* all_spreads, all_profits and best_opportunity are locals that start empty
\* (lines 359, 381-383) and nothing is stored on self, so the result of an
\* earlier pass (previous) has no part in it
Live_evaluate(config, amounts, previous) == Live_evaluations[config][amounts]

(*************************************************************************)
(* database.py / database_live.py: ArbitrageDatabase.  Every method that *)
(* touches the database has the same shape:                              *)
(*     if not self.connected: return <failure>                           *)
(*     conn = self.connection_pool.getconn()                             *)
(*     try:     cursor = conn.cursor(); execute; commit; return <value>  *)
(*     except psycopg2.Error: rollback; return <failure>                 *)
(*     finally: cursor.close(); self.connection_pool.putconn(conn)       *)
(* The environment decides how a call goes:                              *)
(*   ok              every statement succeeds                            *)
(*   error_caught    execute / commit raises psycopg2.Error              *)
(*   error_escapes   getconn raises (it is outside the try)              *)
(*   cursor_unbound  conn.cursor() raises: the handler runs, then the    *)
(*                   finally clause reads the unassigned `cursor`        *)
(*************************************************************************)
SinkOutcomes == {"ok", "error_caught", "error_escapes", "cursor_unbound"}

\* does the call return to its caller (or does an exception leave it)?
sink_returns(outcome) == outcome \in {"ok", "error_caught"}

\* connections taken from the pool and not put back by the call
sink_leak(outcome) == IF outcome = "cursor_unbound" THEN 1 ELSE 0

\* start_session / log_price_scan: the new row's id, or None (0)
sink_id(outcome, rows) == IF outcome = "ok" THEN rows + 1 ELSE 0

(*************************************************************************)
(* State.                                                                *)
(*************************************************************************)
VARIABLES
    bot,                 \* which script runs: "demo", "live", "pullback"
                         \* or "scanner"
    pc,                  \* where the script is
    stop_reason,         \* why the process ended ("" while it runs)
    stop_at,             \* the pc at which it ended
    db,                  \* the database object is set (not None)
    session_id,          \* id start_session returned (0: None)
    end_session_calls,   \* calls of end_session made so far
    db_sessions,         \* rows of bot_sessions
    db_scans,            \* rows of price_scans
    db_opps,             \* rows of arbitrage_opportunities
    conn_out,            \* pool connections checked out
    iteration,
    opportunities_found,
    quotes,              \* what the routers answered in this pass
    prices,
    last_prices,         \* demo
    prices_changed,
    scan_id,
    opportunity,         \* demo: opportunity; live: opp
    cyc_evaluated,       \* simulations were computed in this pass
    cyc_opp_logged,      \* log_arbitrage_opportunity calls of this pass
    cyc_exec,            \* execute_arbitrage_v2 calls of this pass
    cfg,                 \* live: the TRADING_CONFIG the script holds
    network,             \* live: NETWORK
    dry_run,             \* live: DRY_RUN
    mock_abi_file,       \* live: abi/RouterV2Mock.json can be loaded
    router_mock_abi,     \* live: self.router_mock_abi is set
    result,              \* live: result of find_arbitrage_opportunity
    executions_attempted,
    executions_successful,
    tx_hash,             \* live: value of the last execute_arbitrage_v2
    simulated,           \* live: eth_call passed in the current execution
    txs,                 \* live: kinds of transaction broadcast so far
    sink_failed,         \* a log_price_scan / log_arbitrage_opportunity
                         \* call of this session has failed
    late_calls,          \* such a call was made after one had failed
    day,                 \* pullback: the day of the loop
    position,            \* pullback: the open position, or None
    holdings,            \* pullback: amount held of USDT and of each token
    current_prices,      \* pullback: the closes of the day that were
                         \* read and can be read again
    exit_reason,         \* pullback: why the day's exit was made ("": none)
    trades,              \* pullback: stats['trades']
    scan_num,            \* scanner: scan_num of main
    W3_CACHE,            \* scanner: chain -> Web3 client (None: no entry)
    ROUTER_CACHE,        \* scanner: chain -> router contract
    constructed,         \* scanner: per chain, the clients and the router
                         \* contracts constructed so far
    threads,             \* scanner: per token, where the executor thread
                         \* running get_dex_price is and what it holds
    binance_prices,      \* scanner: result of get_binance_prices
    dex_prices,          \* scanner: result of scan_dex_prices
    opps,                \* scanner: result of calculate_spreads
    scan_best            \* scanner: the `best` the scan printed, or None

vars == <<bot, pc, stop_reason, stop_at, db, session_id, end_session_calls,
          db_sessions, db_scans, db_opps, conn_out, iteration,
          opportunities_found, quotes, prices, last_prices, prices_changed,
          scan_id, opportunity, cyc_evaluated, cyc_opp_logged, cyc_exec,
          cfg, network, dry_run, mock_abi_file, router_mock_abi, result,
          executions_attempted, executions_successful, tx_hash, simulated,
          txs, sink_failed, late_calls, day, position, holdings,
          current_prices, exit_reason, trades, scan_num, W3_CACHE,
          ROUTER_CACHE, constructed, threads, binance_prices, dex_prices,
          opps, scan_best>>

dbVars == <<db, session_id, end_session_calls, db_sessions, db_scans,
            db_opps, conn_out, sink_failed, late_calls>>
cycleVars == <<quotes, prices, prices_changed, scan_id, opportunity,
               cyc_evaluated, cyc_opp_logged, cyc_exec>>
\* the state of statistical_arbitrage.demo.py
pullbackVars == <<day, position, holdings, current_prices, exit_reason,
                  trades>>
\* the state of triangular_abitrage.demo.py
scanVars == <<scan_num, W3_CACHE, ROUTER_CACHE, constructed, threads,
              binance_prices, dex_prices, opps, scan_best>>
\* what a run of one of the two bots never changes: its settings, and the
\* state of the other scripts
envVars == <<bot, cfg, network, dry_run, mock_abi_file, pullbackVars,
             scanVars>>
\* the state of the two bots
botVars == <<db, session_id, end_session_calls,
             db_sessions, db_scans, db_opps, conn_out, iteration,
             opportunities_found, quotes, prices, last_prices,
             prices_changed, scan_id, opportunity, cyc_evaluated,
             cyc_opp_logged, cyc_exec, cfg, network, dry_run, mock_abi_file,
             router_mock_abi, result, executions_attempted,
             executions_successful, tx_hash, simulated, txs, sink_failed,
             late_calls>>
execVars == <<executions_attempted, executions_successful, tx_hash,
              simulated, txs>>
countVars == <<iteration, opportunities_found>>

\* passes of the scan loop the model follows
MaxIter == 2

Networks == {"bsc_mainnet", "bsc_testnet"}

NoQuotes == [v \in Venues |-> 0]

InitCommon ==
    /\ stop_reason = ""
    /\ stop_at = ""
    /\ db = FALSE
    /\ session_id = 0
    /\ end_session_calls = 0
    /\ db_sessions = 0
    /\ db_scans = 0
    /\ db_opps = 0
    /\ conn_out = 0
    /\ iteration = 0
    /\ opportunities_found = 0
    /\ quotes = NoQuotes
    /\ prices = None
    /\ last_prices = None
    /\ prices_changed = FALSE
    /\ scan_id = 0
    /\ opportunity = None
    /\ cyc_evaluated = FALSE
    /\ cyc_opp_logged = 0
    /\ cyc_exec = 0
    /\ router_mock_abi = FALSE
    /\ result = EmptyResult
    /\ executions_attempted = 0
    /\ executions_successful = 0
    /\ tx_hash = "unset"
    /\ simulated = FALSE
    /\ txs = {}
    /\ sink_failed = FALSE
    /\ late_calls = FALSE

\* statistical_arbitrage.demo.py is not running
PullbackIdle ==
    /\ day = 0
    /\ position = None
    /\ holdings = None
    /\ current_prices = None
    /\ exit_reason = ""
    /\ trades = 0

\* triangular_abitrage.demo.py is not running
ScannerIdle ==
    /\ scan_num = 0
    /\ W3_CACHE = None
    /\ ROUTER_CACHE = None
    /\ constructed = None
    /\ threads = None
    /\ binance_prices = None
    /\ dex_prices = None
    /\ opps = <<>>
    /\ scan_best = None

InitDemo ==
    /\ bot = "demo"
    /\ pc = "d_init_db"
    /\ cfg = TRADING_CONFIG
    /\ network = "bsc_mainnet"
    /\ dry_run = TRUE
    /\ mock_abi_file = FALSE
    /\ InitCommon
    /\ PullbackIdle
    /\ ScannerIdle

InitLive ==
    /\ bot = "live"
    /\ pc = "l_init"
    /\ cfg \in Configs
    /\ network \in Networks
    /\ dry_run \in BOOLEAN
    /\ mock_abi_file \in BOOLEAN
    \* abi/RouterV2Mock.json is only looked for on a testnet
    /\ network = "bsc_mainnet" => ~mock_abi_file
    /\ InitCommon
    /\ PullbackIdle
    /\ ScannerIdle

Init == InitDemo \/ InitLive

\* one call of log_price_scan or log_arbitrage_opportunity is made, and
\* goes as outcome says
SinkCall(outcome) ==
    /\ sink_failed' = (sink_failed \/ outcome # "ok")
    /\ late_calls' = (late_calls \/ sink_failed)

\* the process ends
Stop(reason) ==
    /\ pc' = "stopped"
    /\ stop_reason' = reason
    /\ stop_at' = pc

\* `if db and session_id: db.end_session(...)` of the handlers, with the
\* way the call goes; db.close() follows when the call returns
EndSession(outcome) ==
    IF db /\ session_id # 0
    THEN /\ end_session_calls' = end_session_calls + 1
         /\ conn_out' = conn_out + sink_leak(outcome)
         /\ UNCHANGED <<db, session_id, db_sessions, db_scans, db_opps,
                        sink_failed, late_calls>>
    ELSE UNCHANGED dbVars

(*************************************************************************)
(* bsc_arbitrage.demo.py: main                                           *)
(*************************************************************************)
DemoLoopPcs == {"d_fetch", "d_log_scan", "d_report", "d_log_opp", "d_sleep"}

\* lines 250-268: connect, create_tables, start_session
Demo_init_db ==
    /\ bot = "demo" /\ pc = "d_init_db"
    /\ \/ /\ db' = FALSE                       \* connect() failed
          /\ UNCHANGED <<session_id, db_sessions, conn_out>>
          /\ pc' = "d_connect"
          /\ UNCHANGED <<stop_reason, stop_at>>
       \/ \E outcome \in SinkOutcomes :
          /\ db' = TRUE
          /\ session_id' = sink_id(outcome, db_sessions)
          /\ db_sessions' = IF outcome = "ok" THEN db_sessions + 1
                            ELSE db_sessions
          /\ conn_out' = conn_out + sink_leak(outcome)
          /\ IF sink_returns(outcome)
             THEN pc' = "d_connect" /\ UNCHANGED <<stop_reason, stop_at>>
             ELSE Stop("startup_exception")
    /\ UNCHANGED <<end_session_calls, db_scans, db_opps, sink_failed,
                   late_calls>>
    /\ UNCHANGED <<cycleVars, envVars, execVars, countVars, last_prices,
                   router_mock_abi, result>>

\* lines 270-274: Web3PriceFetcher(); `if not fetcher.connected: return`
Demo_connect ==
    /\ bot = "demo" /\ pc = "d_connect"
    /\ \E connected \in BOOLEAN :
          IF connected
          THEN pc' = "d_fetch" /\ UNCHANGED <<stop_reason, stop_at>>
          ELSE Stop("no_chain")
    /\ UNCHANGED <<dbVars, cycleVars, envVars, execVars, countVars,
                   last_prices, router_mock_abi, result>>

\* a mutation of Demo_after_fetch: the `continue` is missing
Demo_after_fetch_through(p) == "d_log_scan"

\* `if not prices: ...; time.sleep(3); continue`
Demo_after_fetch(p) == IF p = None THEN "d_sleep" ELSE "d_log_scan"

\* lines 306-309
Demo_prices_changed(last, p) ==
    \/ last = None
    \/ ~REq(last["pancakeswap"], p["pancakeswap"])
    \/ ~REq(last["biswap"], p["biswap"])

\* lines 293-309: one fetch
Demo_fetch ==
    /\ bot = "demo" /\ pc = "d_fetch"
    /\ iteration < MaxIter
    /\ iteration' = iteration + 1
    /\ \E q \in QuoteMaps :
       \E p \in {get_wbnb_price_busd(TRUE, q)} :
          /\ quotes' = q
          /\ prices' = p
          /\ pc' = Demo_after_fetch(p)
          /\ prices_changed' =
                IF p = None THEN prices_changed
                ELSE Demo_prices_changed(last_prices, p)
    /\ scan_id' = IF prices' = None THEN scan_id ELSE 0
    /\ cyc_evaluated' = FALSE
    /\ cyc_opp_logged' = 0
    /\ UNCHANGED <<cyc_exec, opportunity, opportunities_found, last_prices>>
    /\ UNCHANGED <<dbVars, envVars, execVars, router_mock_abi, result,
                   stop_reason, stop_at>>

\* lines 314-322: `if db: scan_id = db.log_price_scan(...)`
Demo_log_scan ==
    /\ bot = "demo" /\ pc = "d_log_scan"
    /\ IF db
       THEN \E outcome \in SinkOutcomes :
              /\ SinkCall(outcome)
              /\ IF sink_returns(outcome)
                 THEN /\ scan_id' = sink_id(outcome, db_scans)
                      /\ db_scans' = IF outcome = "ok" THEN db_scans + 1
                                     ELSE db_scans
                      /\ pc' = "d_report"
                      /\ UNCHANGED <<db, session_id, end_session_calls,
                                     db_sessions, db_opps, conn_out,
                                     stop_reason, stop_at>>
                 ELSE /\ UNCHANGED scan_id
                      /\ Stop("sink_exception")
                      /\ \E o \in SinkOutcomes :
                           /\ end_session_calls' =
                                 IF session_id # 0 THEN end_session_calls + 1
                                 ELSE end_session_calls
                           /\ conn_out' = conn_out + sink_leak(outcome)
                                 + (IF session_id # 0 THEN sink_leak(o) ELSE 0)
                      /\ UNCHANGED <<db, session_id, db_sessions, db_scans,
                                     db_opps>>
       ELSE /\ pc' = "d_report"
            /\ UNCHANGED <<scan_id, dbVars, stop_reason, stop_at>>
    /\ UNCHANGED <<quotes, prices, prices_changed, opportunity,
                   cyc_evaluated, cyc_opp_logged, cyc_exec>>
    /\ UNCHANGED <<envVars, execVars, countVars, last_prices,
                   router_mock_abi, result>>

\* `if prices_changed or iteration == 1:`
Demo_shows(changed, iter) == changed \/ iter = 1

\* lines 326-364: the verbose branch evaluates, the compact one does not
Demo_report ==
    /\ bot = "demo" /\ pc = "d_report"
    /\ IF Demo_shows(prices_changed, iteration)
       THEN \E opp \in {Demo_evaluate(quotes, opportunity)} :
                /\ opportunity' = opp
                /\ cyc_evaluated' = TRUE
                /\ opportunities_found' =
                      IF opp # None THEN opportunities_found + 1
                      ELSE opportunities_found
                /\ IF opp # None /\ db /\ scan_id # 0
                   THEN pc' = "d_log_opp" /\ UNCHANGED last_prices
                   ELSE pc' = "d_sleep" /\ last_prices' = prices
       ELSE /\ pc' = "d_sleep"
            /\ UNCHANGED <<opportunity, cyc_evaluated, opportunities_found,
                           last_prices>>
    /\ UNCHANGED <<iteration, quotes, prices, prices_changed, scan_id,
                   cyc_opp_logged, cyc_exec>>
    /\ UNCHANGED <<dbVars, envVars, execVars, router_mock_abi, result,
                   stop_reason, stop_at>>

\* lines 353-360: db.log_arbitrage_opportunity(scan_id, opportunity)
Demo_log_opp ==
    /\ bot = "demo" /\ pc = "d_log_opp"
    /\ cyc_opp_logged' = cyc_opp_logged + 1
    /\ \E outcome \in SinkOutcomes :
          /\ SinkCall(outcome)
          /\ IF sink_returns(outcome)
             THEN /\ db_opps' = IF outcome = "ok" THEN db_opps + 1 ELSE db_opps
                  /\ last_prices' = prices
                  /\ pc' = "d_sleep"
                  /\ UNCHANGED <<db, session_id, end_session_calls,
                                 db_sessions, db_scans, conn_out,
                                 stop_reason, stop_at>>
             ELSE /\ Stop("sink_exception")
                  /\ \E o \in SinkOutcomes :
                       /\ end_session_calls' =
                             IF session_id # 0 THEN end_session_calls + 1
                             ELSE end_session_calls
                       /\ conn_out' = conn_out + sink_leak(outcome)
                             + (IF session_id # 0 THEN sink_leak(o) ELSE 0)
                  /\ UNCHANGED <<db, session_id, db_sessions, db_scans,
                                 db_opps, last_prices>>
    /\ UNCHANGED <<quotes, prices, prices_changed, scan_id, opportunity,
                   cyc_evaluated, cyc_exec>>
    /\ UNCHANGED <<envVars, execVars, countVars, router_mock_abi, result>>

\* time.sleep(2) / time.sleep(3), then the next pass
Demo_sleep ==
    /\ bot = "demo" /\ pc = "d_sleep"
    /\ iteration < MaxIter
    /\ pc' = "d_fetch"
    /\ UNCHANGED <<stop_reason, stop_at, dbVars, cycleVars, envVars,
                   execVars, countVars, last_prices, router_mock_abi,
                   result>>

\* Ctrl+C inside the try (lines 368-397)
Demo_interrupt ==
    /\ bot = "demo" /\ pc \in DemoLoopPcs
    /\ Stop("interrupt")
    /\ \E o \in SinkOutcomes : EndSession(o)
    /\ UNCHANGED <<cycleVars, envVars, execVars, countVars, last_prices,
                   router_mock_abi, result>>

\* Ctrl+C before the try is entered (lines 246-290): nothing catches it
Demo_interrupt_startup ==
    /\ bot = "demo" /\ pc = "d_connect"
    /\ Stop("interrupt_startup")
    /\ UNCHANGED <<dbVars, cycleVars, envVars, execVars, countVars,
                   last_prices, router_mock_abi, result>>

NextDemo ==
    \/ Demo_init_db
    \/ Demo_connect
    \/ Demo_fetch
    \/ Demo_log_scan
    \/ Demo_report
    \/ Demo_log_opp
    \/ Demo_sleep
    \/ Demo_interrupt
    \/ Demo_interrupt_startup

SpecDemo == InitDemo /\ [][NextDemo]_vars

(*************************************************************************)
(* bsc_arbitrage.live.py: ArbitrageBot.__init__, run, main                *)
(*************************************************************************)
LiveLoopPcs == {"l_scan", "l_log_scan", "l_log_opp", "l_execute", "l_sleep"}

\* `if "testnet" in network: self.router_mock_abi = load_abi(...)`, None when
\* the file cannot be loaded and on every other network
Live_mock_abi(net, file) == net = "bsc_testnet" /\ file

\* __init__ (lines 118-218) called from main's try: the chain connection,
\* the ABIs, then _init_database (lines 220-237).  An exception leaves
\* __init__ and is reported by main as a fatal error.
Live_init ==
    /\ bot = "live" /\ pc = "l_init"
    /\ \E connected \in BOOLEAN :
         IF ~connected
         THEN /\ Stop("fatal_startup")          \* ConnectionError
              /\ UNCHANGED <<db, session_id, db_sessions, conn_out,
                             router_mock_abi>>
         ELSE /\ router_mock_abi' = Live_mock_abi(network, mock_abi_file)
              /\ \/ /\ db' = FALSE                \* db.connect() failed
                    /\ UNCHANGED <<session_id, db_sessions, conn_out>>
                    /\ pc' = "l_run_start"
                    /\ UNCHANGED <<stop_reason, stop_at>>
                 \/ \E outcome \in SinkOutcomes :
                    /\ db' = TRUE
                    /\ session_id' = sink_id(outcome, db_sessions)
                    /\ db_sessions' = IF outcome = "ok" THEN db_sessions + 1
                                      ELSE db_sessions
                    /\ conn_out' = conn_out + sink_leak(outcome)
                    /\ IF sink_returns(outcome)
                       THEN /\ pc' = "l_run_start"
                            /\ UNCHANGED <<stop_reason, stop_at>>
                       ELSE Stop("fatal_startup")
    /\ UNCHANGED <<end_session_calls, db_scans, db_opps, sink_failed,
                   late_calls>>
    /\ UNCHANGED <<cycleVars, envVars, execVars, countVars, last_prices,
                   result>>

\* run, lines 635-674: the banner and get_balance, before the try.  An RPC
\* error of get_balance reaches main's `except Exception`; Ctrl+C here is
\* caught by nothing.
Live_run_start ==
    /\ bot = "live" /\ pc = "l_run_start"
    /\ \E how \in {"ok", "rpc_error", "interrupt"} :
         CASE how = "ok" ->
                pc' = "l_scan" /\ UNCHANGED <<stop_reason, stop_at>>
           [] how = "rpc_error" -> Stop("fatal_exception")
           [] how = "interrupt" -> Stop("interrupt_startup")
    /\ UNCHANGED <<dbVars, cycleVars, envVars, execVars, countVars,
                   last_prices, router_mock_abi, result>>

\* `len(prices) >= 2`
Live_has_prices(p) == Cardinality(DOMAIN p) >= 2

\* `if self.db and len(prices) >= 2:` (line 692)
Live_logs_scan(d, p) == d /\ Live_has_prices(p)

\* `if len(prices) >= 2: ... if opp:` (lines 711, 728)
Live_shows_opp(p, opp) == Live_has_prices(p) /\ opp # None

\* opportunities_found += 1 (line 729)
Live_found(p, opp, n) == IF Live_shows_opp(p, opp) THEN n + 1 ELSE n

\* a mutation of Live_after_display: the execution does not depend on `opp`
Live_after_display_always(p, opp, d, sid) ==
    IF Live_has_prices(p) THEN "l_execute" ELSE "l_sleep"

\* a mutation of Live_after_display: the opportunity is logged whenever
\* there is a database, whatever log_price_scan returned
Live_after_display_any_id(p, opp, d, sid) ==
    IF Live_shows_opp(p, opp)
    THEN (IF d THEN "l_log_opp" ELSE "l_execute")
    ELSE "l_sleep"

\* where the pass goes from the display: `if self.db and scan_id:` logs the
\* opportunity, the execution follows; without an opportunity, the sleep
Live_after_display(p, opp, d, sid) ==
    IF Live_shows_opp(p, opp)
    THEN (IF d /\ sid # 0 THEN "l_log_opp" ELSE "l_execute")
    ELSE "l_sleep"

\* lines 678-691, and the display of lines 711-769 when nothing is logged:
\* one call of find_arbitrage_opportunity; an exception it raises leaves run
Live_scan ==
    /\ bot = "live" /\ pc = "l_scan"
    /\ iteration < MaxIter
    /\ iteration' = iteration + 1
    /\ \E q \in QuoteMaps :
       \E r \in {Live_evaluate(cfg, q, result)} :
          /\ quotes' = q
          /\ result' = r
          /\ prices' = r.prices
          /\ opportunity' = r.opportunity
          /\ cyc_evaluated' = (r.prices # None)
          /\ prices_changed' = (r.prices # None)
          /\ IF r.raised
             THEN /\ Stop("fatal_exception")
                  /\ UNCHANGED opportunities_found
             ELSE /\ UNCHANGED <<stop_reason, stop_at>>
                  /\ IF Live_logs_scan(db, r.prices)
                     THEN /\ pc' = "l_log_scan"
                          /\ UNCHANGED opportunities_found
                     ELSE /\ pc' = Live_after_display(r.prices,
                                        r.opportunity, db, 0)
                          /\ opportunities_found' =
                                Live_found(r.prices, r.opportunity,
                                           opportunities_found)
    /\ scan_id' = 0
    /\ cyc_opp_logged' = 0
    /\ cyc_exec' = 0
    /\ UNCHANGED <<dbVars, envVars, execVars, last_prices, router_mock_abi>>

\* lines 692-708 and the display: scan_id = self.db.log_price_scan(...)
Live_log_scan ==
    /\ bot = "live" /\ pc = "l_log_scan"
    /\ \E outcome \in SinkOutcomes :
       \E sid \in {sink_id(outcome, db_scans)} :
         /\ SinkCall(outcome)
         /\ conn_out' = conn_out + sink_leak(outcome)
         /\ IF sink_returns(outcome)
            THEN /\ scan_id' = sid
                 /\ db_scans' = IF outcome = "ok" THEN db_scans + 1
                                ELSE db_scans
                 /\ pc' = Live_after_display(prices, opportunity, db, sid)
                 /\ opportunities_found' =
                       Live_found(prices, opportunity, opportunities_found)
                 /\ UNCHANGED <<stop_reason, stop_at>>
            ELSE /\ Stop("sink_exception")
                 /\ UNCHANGED <<scan_id, db_scans, opportunities_found>>
    /\ UNCHANGED <<db, session_id, end_session_calls, db_sessions, db_opps>>
    /\ UNCHANGED <<quotes, prices, prices_changed, opportunity,
                   cyc_evaluated, cyc_opp_logged, cyc_exec>>
    /\ UNCHANGED <<envVars, execVars, iteration, last_prices,
                   router_mock_abi, result>>

\* lines 742-752: self.db.log_arbitrage_opportunity(scan_id, db_opp)
Live_log_opp ==
    /\ bot = "live" /\ pc = "l_log_opp"
    /\ cyc_opp_logged' = cyc_opp_logged + 1
    /\ \E outcome \in SinkOutcomes :
         /\ SinkCall(outcome)
         /\ conn_out' = conn_out + sink_leak(outcome)
         /\ IF sink_returns(outcome)
            THEN /\ db_opps' = IF outcome = "ok" THEN db_opps + 1
                               ELSE db_opps
                 /\ pc' = "l_execute"
                 /\ UNCHANGED <<stop_reason, stop_at>>
            ELSE /\ Stop("sink_exception")
                 /\ UNCHANGED db_opps
    /\ UNCHANGED <<db, session_id, end_session_calls, db_sessions, db_scans>>
    /\ UNCHANGED <<quotes, prices, prices_changed, scan_id, opportunity,
                   cyc_evaluated, cyc_exec>>
    /\ UNCHANGED <<envVars, execVars, countVars, last_prices,
                   router_mock_abi, result>>

(*************************************************************************)
(* ArbitrageBot.execute_arbitrage_v2 and _configure_testnet_routers.     *)
(* The chain decides how the calls of one execution go:                  *)
(*   build_error        an exception before eth_call (build_transaction, *)
(*                      gas_price, get_transaction_count)                *)
(*   simulation_failed  eth_call raises: the inner handler returns None  *)
(*   send_error         sign_transaction / send_raw_transaction raises   *)
(*   receipt_timeout    wait_for_transaction_receipt raises              *)
(*   reverted           the receipt has status 0                         *)
(*   success            the receipt has status 1                         *)
(*************************************************************************)
ExecOutcomes == {"build_error", "simulation_failed", "send_error",
                 "receipt_timeout", "reverted", "success"}

\* a mutation of Exec_dry: the dry-run test is skipped
Exec_dry_ignored(dry) == FALSE

\* `if self.dry_run:` (line 477)
Exec_dry(dry) == dry

\* `if "testnet" in self.network:` before _configure_testnet_routers
Exec_configures(net) == net = "bsc_testnet"

\* _configure_testnet_routers goes past its first return (line 244)
Live_configures(net, mock) == ~(net = "bsc_mainnet" \/ ~mock)

\* self.w3.eth.call(tx) returned
Exec_simulated(o) ==
    o \in {"send_error", "receipt_timeout", "reverted", "success"}

\* a mutation of Exec_broadcast: a failed simulation does not return
Exec_broadcast_unchecked(o) ==
    o \in {"simulation_failed", "receipt_timeout", "reverted", "success"}

\* send_raw_transaction returned
Exec_broadcast(o) == o \in {"receipt_timeout", "reverted", "success"}

\* a mutation of Exec_caught: the handler misses the receipt timeout
Exec_caught_narrow(o) == o \in ExecOutcomes \ {"receipt_timeout"}

\* `except Exception as e: ...; return None` (lines 631-633) around the body
Exec_caught(o) == o \in ExecOutcomes

\* the kinds of transaction one call signs and sends; mock_sent says
\* whether a setMockOutput transaction got as far as send_raw_transaction
Exec_sends(dry, net, mock, mock_sent, o) ==
    (IF Exec_configures(net) /\ Live_configures(net, mock) /\ mock_sent
     THEN {"setMockOutput"} ELSE {})
    \cup (IF ~Exec_dry(dry) /\ Exec_broadcast(o)
          THEN {"executeArbitrageV2"} ELSE {})

\* what the call gives back: "DRY_RUN", the hash, or "None"
Exec_value(dry, o) ==
    IF Exec_dry(dry) THEN "DRY_RUN"
    ELSE IF o = "success" THEN "0xhash" ELSE "None"

execute_arbitrage_v2(dry, net, mock, mock_sent, o) ==
    [value     |-> Exec_value(dry, o),
     sent      |-> Exec_sends(dry, net, mock, mock_sent, o),
     simulated |-> ~Exec_dry(dry) /\ Exec_simulated(o),
     raised    |-> ~Exec_dry(dry) /\ ~Exec_caught(o)]

\* a mutation of Exec_successful: "DRY_RUN" counts as a success
Exec_successful_any(v) == v # "None"

\* `if tx_hash and tx_hash != "DRY_RUN":` (line 760)
Exec_successful(v) == v # "None" /\ v # "DRY_RUN"

\* lines 754-765: executions_attempted += 1; tx_hash = execute_arbitrage_v2
Live_execute ==
    /\ bot = "live" /\ pc = "l_execute"
    /\ executions_attempted' = executions_attempted + 1
    /\ cyc_exec' = cyc_exec + 1
    /\ \E mock_sent \in BOOLEAN, o \in ExecOutcomes :
       \E r \in {execute_arbitrage_v2(dry_run, network, router_mock_abi,
                                      mock_sent, o)} :
          /\ txs' = txs \cup r.sent
          /\ simulated' = r.simulated
          /\ IF r.raised
             THEN /\ Stop("exec_exception")
                  /\ UNCHANGED <<tx_hash, executions_successful>>
             ELSE /\ tx_hash' = r.value
                  /\ executions_successful' =
                        IF Exec_successful(r.value)
                        THEN executions_successful + 1
                        ELSE executions_successful
                  /\ pc' = "l_sleep"
                  /\ UNCHANGED <<stop_reason, stop_at>>
    /\ UNCHANGED <<quotes, prices, prices_changed, scan_id, opportunity,
                   cyc_evaluated, cyc_opp_logged>>
    /\ UNCHANGED <<dbVars, envVars, countVars, last_prices, router_mock_abi,
                   result>>

\* time.sleep(interval), then the next pass
Live_sleep ==
    /\ bot = "live" /\ pc = "l_sleep"
    /\ iteration < MaxIter
    /\ pc' = "l_scan"
    /\ UNCHANGED <<stop_reason, stop_at, dbVars, cycleVars, envVars,
                   execVars, countVars, last_prices, router_mock_abi,
                   result>>

\* Ctrl+C inside the try of run (lines 773-791)
Live_interrupt ==
    /\ bot = "live" /\ pc \in LiveLoopPcs
    /\ Stop("interrupt")
    /\ \E o \in SinkOutcomes : EndSession(o)
    /\ UNCHANGED <<cycleVars, envVars, execVars, countVars, last_prices,
                   router_mock_abi, result>>

NextLive ==
    \/ Live_init
    \/ Live_run_start
    \/ Live_scan
    \/ Live_log_scan
    \/ Live_log_opp
    \/ Live_execute
    \/ Live_sleep
    \/ Live_interrupt

Next == NextDemo \/ NextLive

Spec == Init /\ [][Next]_vars

(*************************************************************************)
(* statistical_arbitrage.demo.py: pullback_strategy.  Amounts are exact  *)
(* rationals: the rounding of the Decimal context (18 digits) is not     *)
(* followed.  The market data enters as the close of a token on the day  *)
(* it is read and as the verdicts of is_in_uptrend and                   *)
(* is_pullback_entry on it.                                              *)
(*************************************************************************)
Pullback_TOKENS == <<"ETH", "MATIC", "BTC">>
INITIAL_CAPITAL_USD == 100
TAKE_PROFIT == Rat(12, 100)
STOP_LOSS == Rat(5, 100)
TRAILING_STOP == Rat(3, 100)
MAX_HOLD_DAYS == 7
SLIPPAGE == Rat(2, 1000)
GAS_FEE_USD == Rat(1, 100)

\* `for day in range(30, num_days)`
FirstDay == 30

\* num_days: the days of data the model follows
NumDays == 39

\* entries the market data offers in one run
MaxEntries == 1

\* closes a token can have
PullbackPrices == {100, 104, 110, 115}

\* strength of a token's pullback entry; 0: the token is no opportunity
Strengths == 0..2

RZero == Rat(0, 1)

\* the float 0.03 of `pnl_pct > 0.03`: 1080863910568919 / 2^55
FloatThreeHundredths ==
    [p |-> BigAdd(BigMul(BigOf[10808639], BigOf[100000000]),
                  BigOf[10568919]),
     n |-> <<>>,
     d |-> BigMul(BigOf[33554432], BigOf[1073741824])]

execute_swap(from_amount, from_price, to_price) ==
    LET usd_value       == RMul(from_amount, from_price)
        usd_after_costs == RMul(RSub(usd_value, GAS_FEE_USD),
                                RSub(ROne, SLIPPAGE))
    IN  IF RSign(usd_after_costs) <= 0 THEN RZero
        ELSE RDiv(usd_after_costs, to_price)

\* a mutation of Pullback_time_stop: there is no time stop
Pullback_time_stop_never(days_held) == FALSE

\* `elif days_held >= MAX_HOLD_DAYS:` (line 272)
Pullback_time_stop(days_held) == days_held >= MAX_HOLD_DAYS

\* lines 253-285: the first rule that asks for the exit, "" when none does
Pullback_exit_reason(pnl_pct, trailing_pnl, days_held, still_uptrend) ==
    IF RGe(pnl_pct, TAKE_PROFIT) THEN "TAKE PROFIT"
    ELSE IF RCmp(pnl_pct, RNeg(STOP_LOSS)) <= 0 THEN "STOP LOSS"
    ELSE IF RGt(pnl_pct, FloatThreeHundredths)
            /\ RCmp(trailing_pnl, RNeg(TRAILING_STOP)) <= 0
         THEN "TRAILING STOP"
    ELSE IF Pullback_time_stop(days_held) THEN "TIME STOP"
    ELSE IF days_held >= 2 /\ ~still_uptrend THEN "TREND BROKEN"
    ELSE ""

\* lines 234-251: what the `if position:` block measures of the position
\* pos at the close of its token
Pullback_measure(pos, held, current_price) ==
    LET current_value == RMul(held[pos.token], current_price)
        peak          == IF RGt(current_value, pos.peak_value)
                         THEN current_value ELSE pos.peak_value
    IN  [peak_value   |-> peak,
         pnl_pct      |-> RDiv(RSub(current_value, pos.entry_value),
                               pos.entry_value),
         trailing_pnl |-> RDiv(RSub(current_value, peak), peak)]

\* lines 234-311: the `if position:` block of one day, for the position
\* pos, the holdings held, the day d, the close of the token and what was
\* measured at it
Pullback_check_exit(pos, held, d, current_price, m, still_uptrend) ==
    LET reason == Pullback_exit_reason(m.pnl_pct, m.trailing_pnl,
                                       d - pos.entry_day, still_uptrend)
        amount_received == execute_swap(held[pos.token], current_price, ROne)
        peak == m.peak_value
    IN  IF reason # ""
        THEN [reason   |-> reason,
              position |-> None,
              holdings |-> [held EXCEPT ![pos.token] = RZero,
                                        !["USDT"] = amount_received]]
        ELSE [reason   |-> "",
              position |-> [pos EXCEPT !.peak_value = peak],
              holdings |-> held]

\* `max(opportunities, key=lambda x: x['strength'])`: the first token, in
\* the order of TOKENS, of the greatest strength
Pullback_best(strength) ==
    LET i == CHOOSE k \in DOMAIN Pullback_TOKENS :
                 /\ \A j \in DOMAIN Pullback_TOKENS :
                       strength[Pullback_TOKENS[j]]
                          <= strength[Pullback_TOKENS[k]]
                 /\ \A j \in 1..(k - 1) :
                       strength[Pullback_TOKENS[j]]
                          < strength[Pullback_TOKENS[k]]
    IN  Pullback_TOKENS[i]

\* lines 349-359: the amounts of an entry at price with usdt in hand
Pullback_amounts(usdt, price) ==
    LET invest_amount == RMul(usdt, Rat(95, 100))
    IN  [invest_amount   |-> invest_amount,
         amount_received |-> execute_swap(invest_amount, ROne, price),
         entry_value     |-> RSub(RSub(invest_amount, GAS_FEE_USD),
                                  RMul(invest_amount, SLIPPAGE)),
         usdt_left       |-> RSub(usdt, invest_amount)]

\* lines 343-376: the entry into token at price on day d, with the
\* amounts a
Pullback_enter(held, token, price, d, a) ==
    IF RSign(a.amount_received) > 0
    THEN [position |-> [token       |-> token,
                        entry_day   |-> d,
                        entry_price |-> price,
                        entry_value |-> a.entry_value,
                        peak_value  |-> a.entry_value],
          holdings |-> [held EXCEPT !["USDT"] = a.usdt_left,
                                    ![token] = a.amount_received],
          traded   |-> 1]
    ELSE [position |-> None, holdings |-> held, traded |-> 0]

\* the tokens that is_in_uptrend and is_pullback_entry can make the best
\* opportunity of a day
Pullback_offers ==
    {Pullback_best(strength) :
        strength \in {f \in [{"ETH", "MATIC", "BTC"} -> Strengths] :
                         \E t \in DOMAIN f : f[t] # 0}}

\* entries made so far: every exit follows an entry
Pullback_entries(n, pos) == (n + (IF pos # None THEN 1 ELSE 0)) \div 2

\* lines 184-201: the data of every token is fetched, then the holdings are
\* set; an error of fetch_daily_data leaves pullback_strategy
Pullback_fetch ==
    /\ bot = "pullback" /\ pc = "p_fetch"
    /\ \E fetched \in BOOLEAN :
         IF fetched
         THEN /\ holdings' = [t \in {"USDT", "ETH", "MATIC", "BTC"} |->
                                IF t = "USDT" THEN Rat(INITIAL_CAPITAL_USD, 1)
                                ELSE RZero]
              /\ day' = FirstDay
              /\ pc' = "p_exit"
              /\ UNCHANGED <<stop_reason, stop_at>>
         ELSE /\ Stop("fetch_error")
              /\ UNCHANGED <<holdings, day>>
    /\ UNCHANGED <<position, current_prices, exit_reason, trades>>
    /\ UNCHANGED <<bot, botVars, scanVars>>

\* lines 221-311: the day begins, and an open position is checked for exit
Pullback_exit ==
    /\ bot = "pullback" /\ pc = "p_exit"
    /\ day < NumDays
    /\ pc' = "p_entry"
    /\ IF position = None
       THEN /\ exit_reason' = ""
            /\ UNCHANGED <<position, holdings, current_prices, trades>>
       ELSE \E price \in PullbackPrices :
            \E m \in {Pullback_measure(position, holdings, Rat(price, 1))} :
            \E still_uptrend \in BOOLEAN :
            \E o \in {Pullback_check_exit(position, holdings, day,
                                          Rat(price, 1), m, still_uptrend)} :
               /\ current_prices' = IF o.reason # ""
                                    THEN (position.token :> price)
                                    ELSE None
               /\ exit_reason' = o.reason
               /\ position' = o.position
               /\ holdings' = o.holdings
               /\ trades' = IF o.reason # "" THEN trades + 1 ELSE trades
    /\ UNCHANGED <<day, stop_reason, stop_at, bot, botVars, scanVars>>

\* lines 313-376: without a position, the best pullback entry is taken; the
\* loop goes to the next day
Pullback_entry ==
    /\ bot = "pullback" /\ pc = "p_entry"
    /\ pc' = "p_exit"
    /\ day' = day + 1
    /\ current_prices' = None
    /\ exit_reason' = ""
    /\ IF position # None
       THEN UNCHANGED <<position, holdings, trades>>
       ELSE \/ UNCHANGED <<position, holdings, trades>>
            \/ /\ Pullback_entries(trades, position) < MaxEntries
               /\ \E price \in PullbackPrices :
                  \E a \in {Pullback_amounts(holdings["USDT"],
                                             Rat(price, 1))} :
                  \E best \in Pullback_offers :
                  \E o \in {Pullback_enter(holdings, best, Rat(price, 1),
                                           day, a)} :
                     /\ best \in DOMAIN current_prices
                           => price = current_prices[best]
                     /\ position' = o.position
                     /\ holdings' = o.holdings
                     /\ trades' = trades + o.traded
    /\ UNCHANGED <<stop_reason, stop_at, bot, botVars, scanVars>>

\* lines 378-409: the loop is over, the final results are printed
Pullback_finish ==
    /\ bot = "pullback" /\ pc = "p_exit"
    /\ day >= NumDays
    /\ pc' = "p_done"
    /\ UNCHANGED <<stop_reason, stop_at, bot, botVars, scanVars, pullbackVars>>

InitPullback ==
    /\ bot = "pullback"
    /\ pc = "p_fetch"
    /\ cfg = TRADING_CONFIG
    /\ network = "bsc_mainnet"
    /\ dry_run = TRUE
    /\ mock_abi_file = FALSE
    /\ InitCommon
    /\ PullbackIdle
    /\ ScannerIdle

NextPullback ==
    \/ Pullback_fetch
    \/ Pullback_exit
    \/ Pullback_entry
    \/ Pullback_finish

SpecPullback == InitPullback /\ [][NextPullback]_vars

(*************************************************************************)
(* triangular_abitrage.demo.py: the CEX-DEX scanner.  main first calls   *)
(* get_router for every chain, then scans for ever: get_dex_price runs   *)
(* for every token in a thread of the default executor while the Binance *)
(* prices are fetched, and the spreads of the gathered prices are        *)
(* computed and printed.  What Binance and the routers answer is drawn   *)
(* from small sets; a thread may be pre-empted between any two           *)
(* statements of get_router.  A Web3 client is held as its chain and the *)
(* serial number of its construction for that chain, a router contract   *)
(* as its chain and the serial number of the client it was made from.    *)
(* The prices drawn divide exactly, so the 18-digit rounding of the      *)
(* Decimal context does not act; float(spread) is the nearest double.    *)
(*************************************************************************)
\* lines 30-56, in the order of the dict
CHAINS == <<"BSC", "Polygon", "Arbitrum">>

ChainNames == {CHAINS[i] : i \in 1..Len(CHAINS)}

\* lines 60-114, in the order of the dict
TokenKeys ==
    <<"ETH_BSC", "BNB_BSC", "ETH_Polygon", "MATIC_Polygon", "ETH_Arbitrum",
      "ARB_Arbitrum">>

Scan_TOKENS ==
    [ETH_BSC       |-> [symbol |-> "ETH",   binance |-> "ETHUSDT",
                        chain |-> "BSC"],
     BNB_BSC       |-> [symbol |-> "BNB",   binance |-> "BNBUSDT",
                        chain |-> "BSC"],
     ETH_Polygon   |-> [symbol |-> "ETH",   binance |-> "ETHUSDT",
                        chain |-> "Polygon"],
     MATIC_Polygon |-> [symbol |-> "MATIC", binance |-> "MATICUSDT",
                        chain |-> "Polygon"],
     ETH_Arbitrum  |-> [symbol |-> "ETH",   binance |-> "ETHUSDT",
                        chain |-> "Arbitrum"],
     ARB_Arbitrum  |-> [symbol |-> "ARB",   binance |-> "ARBUSDT",
                        chain |-> "Arbitrum"]]

\* the model follows the first NumTokens tokens of TOKENS
NumTokens == 4

\* scans the model follows
MaxScans == 2

ScanKeys == {TokenKeys[i] : i \in 1..NumTokens}

ScanSymbols == {Scan_TOKENS[k].binance : k \in ScanKeys}

\* line 117
MIN_SPREAD == Rat(3, 10)

\* line 118
MAX_VALID_SPREAD == Rat(5, 1)

\* what Binance quotes for a symbol
CexPrices == {1000}

\* what a router quotes for a token
DexPrices == {996, 1001, 1003, 1060}

\* what get_dex_price returns; 0 stands for None and for a price of 0,
\* which scan_dex_prices drops alike
DexOutcomes == DexPrices \cup {0}

\* what get_binance_prices returns: the symbols the answer held, or {}
BinanceOutcomes == UNION {[S -> CexPrices] : S \in SUBSET ScanSymbols}

BigPow2[e \in Nat] ==
    IF e = 0 THEN BigOf[1] ELSE BigMulDigit[BigPow2[e - 1], 2, 0]

\* the exponent e with 2^52 <= (m / d) * 2^e < 2^53, for 2^-11 <= m / d < 2^53
FloatExp(m, d) == CHOOSE e \in 0..64 : BigCmp(BigMul(m, BigPow2[e]), BigMul(d, BigPow2[52])) >= 0 /\ BigCmp(BigMul(m, BigPow2[e]), BigMul(d, BigPow2[53])) < 0

\* float(x) of a Decimal x: the double nearest to x, ties to the even
\* mantissa (normal doubles of magnitude below 2^53 only)
Float(x) ==
    IF RSign(x) = 0 THEN RZero
    ELSE LET a    == RAbs(x)
             m    == BigSub(a.p, a.n)
             e    == FloatExp(m, a.d)
             qr   == BigDivStep[BigMul(m, BigPow2[e]), a.d, 1]
             c    == BigCmp(BigMulDigit[qr[2], 2, 0], a.d)
             up   == c > 0 \/ (c = 0 /\ Head(qr[1]) % 2 = 1)
             mant == IF up THEN BigAdd(qr[1], BigOf[1]) ELSE qr[1]
             v    == [p |-> mant, n |-> <<>>, d |-> BigPow2[e]]
         IN  IF RSign(x) > 0 THEN v ELSE RNeg(v)

\* line 230
Scan_spread(cex_price, dex_price) == RMul(RDiv(RSub(Rat(dex_price, 1), Rat(cex_price, 1)), Rat(cex_price, 1)), RHundred)

\* the spread of every pair of prices, as the Decimal and as its float
Scan_spreads ==
    [c \in CexPrices |-> [d \in DexPrices |->
        LET spread == Scan_spread(c, d)
        IN  [spread |-> spread, float |-> Float(spread)]]]

\* line 127
Web3(chain_name, serial) == [chain |-> chain_name, serial |-> serial]

\* lines 129-132
Contract(w3) == [chain |-> w3.chain, w3 |-> w3.serial]

\* lines 124-133, run by main before any thread exists; caches holds
\* W3_CACHE, ROUTER_CACHE and the count of the constructions
get_router(caches, chain_name) ==
    IF caches.router[chain_name] = None
    THEN LET w3 == Web3(chain_name, caches.built[chain_name].w3 + 1)
         IN  [w3     |-> [caches.w3 EXCEPT ![chain_name] = w3],
              router |-> [caches.router EXCEPT ![chain_name] = Contract(w3)],
              built  |-> [caches.built EXCEPT ![chain_name] =
                             [w3 |-> @.w3 + 1, router |-> @.router + 1]]]
    ELSE caches

\* main without its loop over CHAINS
Scan_no_connections(caches) == caches

\* lines 258-262: `for chain in CHAINS: w3, _ = get_router(chain)`
Scan_test_connections(caches) ==
    LET after[i \in 0..Len(CHAINS)] ==
            IF i = 0 THEN caches ELSE get_router(after[i - 1], CHAINS[i])
    IN  after[Len(CHAINS)]

\* lines 203-218: the prices of the threads that are truthy and positive
scan_dex_prices(th) == [k \in {j \in ScanKeys : th[j].price > 0} |-> th[k].price]

\* lines 224-228: the tokens with both prices
Scan_priced(bp, dp) == {k \in ScanKeys : /\ Scan_TOKENS[k].binance \in DOMAIN bp /\ bp[Scan_TOKENS[k].binance] # 0 /\ k \in DOMAIN dp /\ dp[k] # 0}

\* lines 230-245: the entry of token k, or nothing when the spread is
\* above MAX_VALID_SPREAD
Scan_entry(k, bp, dp) ==
    LET cex_price == bp[Scan_TOKENS[k].binance]
        s         == Scan_spreads[cex_price][dp[k]]
    IN  IF RGt(RAbs(s.spread), MAX_VALID_SPREAD) THEN <<>>
        ELSE <<[key |-> k, symbol |-> Scan_TOKENS[k].symbol,
                chain |-> Scan_TOKENS[k].chain, cex |-> cex_price,
                dex_price |-> dp[k], spread |-> s.float,
                direction |-> IF RSign(s.spread) > 0 THEN "CEX->DEX"
                              ELSE "DEX->CEX"]>>

\* line 247: sorted(..., key=abs(spread), reverse=True), which is stable
Scan_sorted(list) ==
    LET key(i)    == RAbs(list[i].spread)
        before(i) == {j \in 1..Len(list) : \/ RGt(key(j), key(i))
                                           \/ j < i /\ REq(key(j), key(i))}
    IN  [r \in 1..Len(list) |->
            list[CHOOSE i \in 1..Len(list) : Cardinality(before(i)) = r - 1]]

\* lines 220-247
calculate_spreads(bp, dp) ==
    LET priced == Scan_priced(bp, dp)
        opportunities[i \in 0..NumTokens] ==
            IF i = 0 THEN <<>>
            ELSE opportunities[i - 1] \o
                 (IF TokenKeys[i] \in priced
                  THEN Scan_entry(TokenKeys[i], bp, dp) ELSE <<>>)
    IN  Scan_sorted(opportunities[NumTokens])

\* line 304
Scan_valid(found) == SelectSeq(found, LAMBDA o : RGe(RAbs(o.spread), MIN_SPREAD))

\* lines 283-311: the best that is printed, None when none is
Scan_best(found) ==
    IF found = <<>> THEN None
    ELSE LET valid == Scan_valid(found)
         IN  IF valid # <<>> THEN valid[1] ELSE None

\* lines 258-262
Scan_warm ==
    /\ bot = "scanner" /\ pc = "s_warm"
    /\ \E c \in {Scan_test_connections([w3 |-> W3_CACHE, router |-> ROUTER_CACHE, built |-> constructed])} :
          /\ W3_CACHE' = c.w3
          /\ ROUTER_CACHE' = c.router
          /\ constructed' = c.built
    /\ pc' = "s_loop"
    /\ UNCHANGED <<scan_num, threads, binance_prices, dex_prices, opps,
                   scan_best>>
    /\ UNCHANGED <<stop_reason, stop_at, bot, botVars, pullbackVars>>

\* lines 267-274, 207-208: a scan begins, get_dex_price is handed to the
\* executor for every token
Scan_start ==
    /\ bot = "scanner" /\ pc = "s_loop"
    /\ scan_num < MaxScans
    /\ scan_num' = scan_num + 1
    /\ threads' = [k \in ScanKeys |-> [pc |-> "start", w3 |-> None,
                                       router |-> None, price |-> 0]]
    /\ binance_prices' = None
    /\ dex_prices' = None
    /\ opps' = <<>>
    /\ scan_best' = None
    /\ pc' = "s_scan"
    /\ UNCHANGED <<W3_CACHE, ROUTER_CACHE, constructed>>
    /\ UNCHANGED <<stop_reason, stop_at, bot, botVars, pullbackVars>>

\* lines 139-181, 124-133: the next statement of the thread of token k
Scan_thread(k) ==
    /\ bot = "scanner" /\ pc = "s_scan"
    /\ threads[k].pc # "done"
    /\ LET t == threads[k]
           c == Scan_TOKENS[k].chain
       IN  CASE t.pc = "start" ->
                  \* line 125
                  /\ threads' = [threads EXCEPT ![k].pc =
                                    IF ROUTER_CACHE[c] = None
                                    THEN "web3" ELSE "return"]
                  /\ UNCHANGED <<W3_CACHE, ROUTER_CACHE, constructed>>
             [] t.pc = "web3" ->
                  \* lines 126-128
                  LET w3 == Web3(c, constructed[c].w3 + 1)
                  IN  /\ W3_CACHE' = [W3_CACHE EXCEPT ![c] = w3]
                      /\ constructed' =
                            [constructed EXCEPT ![c].w3 = @ + 1]
                      /\ threads' = [threads EXCEPT ![k] =
                            [t EXCEPT !.pc = "contract", !.w3 = w3]]
                      /\ UNCHANGED ROUTER_CACHE
             [] t.pc = "contract" ->
                  \* lines 129-132
                  /\ ROUTER_CACHE' =
                        [ROUTER_CACHE EXCEPT ![c] = Contract(t.w3)]
                  /\ constructed' =
                        [constructed EXCEPT ![c].router = @ + 1]
                  /\ threads' = [threads EXCEPT ![k].pc = "return"]
                  /\ UNCHANGED W3_CACHE
             [] t.pc = "return" ->
                  \* lines 133, 144
                  /\ threads' = [threads EXCEPT ![k] =
                        [t EXCEPT !.pc = "price", !.w3 = W3_CACHE[c],
                                  !.router = ROUTER_CACHE[c]]]
                  /\ UNCHANGED <<W3_CACHE, ROUTER_CACHE, constructed>>
             [] t.pc = "price" ->
                  \* lines 145-181
                  /\ \E price \in DexOutcomes :
                        threads' = [threads EXCEPT ![k] =
                            [t EXCEPT !.pc = "done", !.price = price]]
                  /\ UNCHANGED <<W3_CACHE, ROUTER_CACHE, constructed>>
    /\ UNCHANGED <<scan_num, binance_prices, dex_prices, opps, scan_best>>
    /\ UNCHANGED <<pc, stop_reason, stop_at, bot, botVars, pullbackVars>>

\* lines 271-311: both gathered results are in, the spreads are computed
\* and printed
Scan_report ==
    /\ bot = "scanner" /\ pc = "s_scan"
    /\ \A k \in ScanKeys : threads[k].pc = "done"
    /\ \E bp \in BinanceOutcomes :
          \E found \in {calculate_spreads(bp, scan_dex_prices(threads))} :
             /\ binance_prices' = bp
             /\ dex_prices' = scan_dex_prices(threads)
             /\ opps' = found
             /\ scan_best' = Scan_best(found)
    /\ pc' = "s_sleep"
    /\ UNCHANGED <<scan_num, W3_CACHE, ROUTER_CACHE, constructed, threads>>
    /\ UNCHANGED <<stop_reason, stop_at, bot, botVars, pullbackVars>>

\* lines 285, 313
Scan_sleep ==
    /\ bot = "scanner" /\ pc = "s_sleep"
    /\ pc' = "s_loop"
    /\ UNCHANGED <<stop_reason, stop_at, bot, botVars, pullbackVars,
                   scanVars>>

InitScanner ==
    /\ bot = "scanner"
    /\ pc = "s_warm"
    /\ cfg = TRADING_CONFIG
    /\ network = "bsc_mainnet"
    /\ dry_run = TRUE
    /\ mock_abi_file = FALSE
    /\ InitCommon
    /\ PullbackIdle
    /\ scan_num = 0
    /\ W3_CACHE = [c \in ChainNames |-> None]
    /\ ROUTER_CACHE = [c \in ChainNames |-> None]
    /\ constructed = [c \in ChainNames |-> [w3 |-> 0, router |-> 0]]
    /\ threads = None
    /\ binance_prices = None
    /\ dex_prices = None
    /\ opps = <<>>
    /\ scan_best = None

NextScanner ==
    \/ Scan_warm
    \/ Scan_start
    \/ \E k \in ScanKeys : Scan_thread(k)
    \/ Scan_report
    \/ Scan_sleep

SpecScanner == InitScanner /\ [][NextScanner]_vars

(*************************************************************************)
(* Properties.                                                           *)
(*************************************************************************)

\* C1: whenever the evaluation of a scan returns an Opportunity
\* (check_arbitrage in the demo bot, find_arbitrage_opportunity in the live
\* bot), its net profit is at least the net profit of every ordered venue
\* pair of that scan whose net profit exceeds the threshold.
C1_BestNet ==
    /\ (bot = "demo" /\ cyc_evaluated /\ opportunity # None) =>
          \A k \in DOMAIN Demo_nets[quotes] :
             RGt(Demo_nets[quotes][k], MIN_PROFIT_THRESHOLD)
                => RGe(opportunity.net, Demo_nets[quotes][k])
    /\ (bot = "live" /\ result.opportunity # None) =>
          \A k \in DOMAIN result.profits :
             RGt(from_wei(result.profits[k]), cfg.min_profit)
                => RGe(result.opportunity.estimated_net_profit,
                       result.profits[k])

\* C1 happens: the demo bot returned the BiSwap -> PancakeSwap direction,
\* whose net profit clears the threshold
C1_Witness ==
    /\ bot = "demo" /\ cyc_evaluated /\ opportunity # None
    /\ opportunity.buy_dex = "BiSwap"
    /\ RGt(Demo_nets[quotes][<<"biswap", "pancakeswap">>],
           MIN_PROFIT_THRESHOLD)

\* C2 as the specification states it: with quotes from two venues the
\* evaluation returns an Opportunity if and only if some ordered pair has a
\* net profit above min_profit, and a returned Opportunity has a net profit
\* above it.
C2_IffClears ==
    /\ (bot = "demo" /\ cyc_evaluated) =>
          /\ (opportunity # None) <=>
                \E k \in DOMAIN Demo_nets[quotes] :
                   RGt(Demo_nets[quotes][k], MIN_PROFIT_THRESHOLD)
          /\ opportunity # None
                => RGt(opportunity.net, MIN_PROFIT_THRESHOLD)
    /\ (bot = "live" /\ result.prices # None /\ ~result.raised) =>
          /\ (result.opportunity # None) <=>
                \E k \in DOMAIN result.profits :
                   RGt(from_wei(result.profits[k]), cfg.min_profit)
          /\ result.opportunity # None
                => RGt(from_wei(result.opportunity.estimated_net_profit),
                       cfg.min_profit)

\* C5: when venue a quotes strictly lower than venue b, an Opportunity the
\* evaluation returns buys on a and sells on b, never the reverse.
C5_BuyCheap ==
    \A a, b \in Venues :
       (quotes[a] # 0 /\ quotes[b] # 0 /\ quotes[a] < quotes[b]) =>
          /\ (bot = "demo" /\ cyc_evaluated /\ opportunity # None) =>
                /\ opportunity.buy_dex = Demo_dex(a)
                /\ opportunity.sell_dex = Demo_dex(b)
          /\ (bot = "live" /\ iteration >= 1
                /\ result.opportunity # None) =>
                /\ result.opportunity.buy_router = a
                /\ result.opportunity.sell_router = b

\* C5 happens: BiSwap quotes lower, the live bot's first pair (buy on
\* PancakeSwap) passes the spread filter and the second pair replaces it
C5_Witness ==
    /\ bot = "live" /\ iteration >= 1
    /\ quotes["biswap"] # 0 /\ quotes["biswap"] < quotes["pancakeswap"]
    /\ result.opportunity # None
    /\ result.opportunity.buy_router = "biswap"

C4_SessionEnded ==
    (pc = "stopped" /\ session_id # 0) => end_session_calls >= 1

\* C6: a failure of execute_arbitrage_v2 (simulation fails, the transaction
\* reverts, the receipt wait times out, any exception while building or
\* sending) never ends the scan loop: the call returns "None" and the
\* driver goes on to the sleep before the next pass; only Ctrl+C stops the
\* process there.
C6_ExecFailureContinues ==
    [][(bot = "live" /\ pc = "l_execute" /\ pc' # pc) =>
          \/ /\ pc' = "l_sleep"
             /\ tx_hash' \in {"None", "DRY_RUN", "0xhash"}
             /\ (~dry_run /\ executions_successful' = executions_successful)
                   => tx_hash' = "None"
          \/ /\ pc' = "stopped"
             /\ stop_reason' = "interrupt"]_vars

\* C6 happens: a live execution failed and the driver is about to start
\* the next pass
C6_Witness ==
    /\ bot = "live" /\ ~dry_run
    /\ pc = "l_scan" /\ iteration = 1
    /\ executions_attempted = 1 /\ executions_successful = 0
    /\ tx_hash = "None"

\* C7 as the specification states it: a failing log_price_scan or
\* log_arbitrage_opportunity never aborts the scan loop.
C7_SinkFailureContinues ==
    pc = "stopped" =>
       \/ stop_at \notin {"d_log_scan", "d_log_opp", "l_log_scan", "l_log_opp"}
       \/ stop_reason = "interrupt"

\* C8 as the specification states it: with a malformed configuration the
\* process stops at startup and never performs a scan cycle.
C8_MalformedStops == Malformed(cfg) => iteration = 0

\* C9: when every venue's quote failed in a pass, the driver does not stop:
\* in that pass it evaluates nothing, logs no opportunity and executes
\* nothing; it is at the sleep or back at the fetch, and only Ctrl+C ends
\* the process there.
C9_AllFailedRetries ==
    (iteration >= 1 /\ quotes = NoQuotes) =>
       /\ ~cyc_evaluated /\ cyc_opp_logged = 0 /\ cyc_exec = 0
       /\ pc \in {"d_sleep", "d_fetch", "l_sleep", "l_scan", "stopped"}
       /\ pc = "stopped" =>
             /\ stop_reason = "interrupt"
             /\ stop_at \in {"d_sleep", "d_fetch", "l_sleep", "l_scan"}

\* C9 happens: the demo bot's second pass in a row got no quote (no pass
\* before it stored last_prices) and the driver is at the sleep again
C9_Witness ==
    /\ bot = "demo" /\ pc = "d_sleep"
    /\ iteration = 2 /\ quotes = NoQuotes /\ last_prices = None

\* C10: when fewer than 2 venues answer in a pass, the evaluation yields no
\* simulations and no Opportunity and raises nothing: the live result is
\* empty, the demo bot does not call check_arbitrage, and no exception
\* ends the process.
C10_FewQuotesEmpty ==
    (iteration >= 1 /\ Cardinality({v \in Venues : quotes[v] # 0}) < 2) =>
       /\ bot = "live" =>
             /\ result.spreads = None /\ result.profits = None
             /\ result.opportunity = None /\ ~result.raised
       /\ bot = "demo" => prices = None /\ ~cyc_evaluated
       /\ cyc_opp_logged = 0 /\ cyc_exec = 0
       /\ stop_reason \in {"", "interrupt"}

\* C10 happens: only PancakeSwap answered and the live bot went on to the
\* sleep
C10_Witness ==
    /\ bot = "live" /\ pc = "l_sleep" /\ iteration >= 1
    /\ quotes["pancakeswap"] # 0 /\ quotes["biswap"] = 0
    /\ ~Malformed(cfg)

C13_NetIsMinusGas ==
    (quotes["pancakeswap"] # 0 /\ quotes["pancakeswap"] = quotes["biswap"]) =>
       /\ (bot = "demo" /\ cyc_evaluated) =>
             /\ \A k \in DOMAIN Demo_nets[quotes] :
                   REq(Demo_nets[quotes][k], RNeg(GAS_COST_USD))
             /\ opportunity = None
       /\ (bot = "live" /\ result.prices # None /\ ~result.raised) =>
             /\ \A k \in DOMAIN result.profits :
                   REq(from_wei(result.profits[k]), RNeg(cfg.gas_cost_usd))
             /\ result.opportunity = None

\* C13, amended: when both venues quote the same price every simulated pair
\* loses the two venue fees, the borrowing fee and the fixed execution cost:
\* its net profit is borrow * ((1 - borrow fee) * (1 - fee) * (1 - fee') - 1)
\* - cost in the demo bot and borrow * ((1 - fee) * (1 - fee') - 1 - borrow
\* fee) - cost in the live bot, which is strictly below minus the fixed
\* execution cost, and no Opportunity is selected.
C13_EqualPricesLoseFees ==
    (quotes["pancakeswap"] # 0 /\ quotes["pancakeswap"] = quotes["biswap"]) =>
       /\ (bot = "demo" /\ cyc_evaluated) =>
             /\ \A k \in DOMAIN Demo_nets[quotes] :
                   /\ REq(Demo_nets[quotes][k],
                          RSub(RSub(RMul(RMul(RMul(
                                 Rat(FLASH_LOAN_AMOUNT_USD, 1),
                                 RSub(ROne, FLASH_LOAN_FEE)),
                                 RSub(ROne, PANCAKESWAP_FEE)),
                                 RSub(ROne, BISWAP_FEE)),
                               Rat(FLASH_LOAN_AMOUNT_USD, 1)),
                               GAS_COST_USD))
                   /\ RLt(Demo_nets[quotes][k], RNeg(GAS_COST_USD))
             /\ opportunity = None
       /\ (bot = "live" /\ result.prices # None /\ ~result.raised) =>
             /\ \A k \in DOMAIN result.profits :
                   /\ result.profits[k] =
                         to_wei_signed(
                          RSub(RSub(RMul(RMul(
                                 Rat(cfg.borrow_amount, 1),
                                 RSub(ROne, PANCAKE_FEE)),
                                 RSub(ROne, Live_BISWAP_FEE)),
                               RMul(Rat(cfg.borrow_amount, 1),
                                    RAdd(ROne, cfg.flash_loan_fee))),
                               cfg.gas_cost_usd))
                   /\ RLt(from_wei(result.profits[k]),
                          RNeg(cfg.gas_cost_usd))
             /\ DOMAIN result.profits = {<<"pancakeswap", "biswap">>,
                                         <<"biswap", "pancakeswap">>}
             /\ result.opportunity = None

\* C13 happens: the demo bot evaluated a scan in which both venues quoted
\* 600.00 and reported no opportunity
C13_Witness ==
    /\ bot = "demo" /\ cyc_evaluated /\ pc = "d_sleep"
    /\ quotes["pancakeswap"] = 600000000 /\ quotes["biswap"] = 600000000
    /\ opportunity = None

\* C14: in each scan cycle execute_arbitrage_v2 is called at most once, and
\* only when the evaluation of that cycle selected an Opportunity; a failed
\* execution is not attempted again in the same cycle, so the executions
\* attempted never outnumber the cycles.
C14_ExecOncePerCycle ==
    /\ cyc_exec <= 1
    /\ cyc_exec = 1 =>
          /\ bot = "live"
          /\ result.opportunity # None
          /\ Live_has_prices(result.prices)
    /\ executions_attempted <= iteration

\* C14 happens: the execution of the second cycle failed, after the one of
\* the first cycle, and the driver is at the sleep
C14_Witness ==
    /\ bot = "live" /\ ~dry_run /\ pc = "l_sleep"
    /\ iteration = 2 /\ executions_attempted = 2
    /\ cyc_exec = 1 /\ tx_hash = "None"

\* C15: for every ordered pair of distinct venues that returned a quote in
\* a scan the live bot records exactly one simulation, in the spreads map
\* and in the profits map, whatever the sign of its net profit: N quoted
\* venues give N * (N - 1) simulations.
C15_AllPairsRecorded ==
    (bot = "live" /\ iteration >= 1 /\ ~Malformed(cfg)) =>
       LET quoted == {v \in Venues : quotes[v] # 0}
           wanted == {k \in quoted \X quoted : k[1] # k[2]}
       IN  /\ DOMAIN result.spreads = wanted
           /\ DOMAIN result.profits = wanted
           /\ Cardinality(DOMAIN result.profits)
                 = Cardinality(quoted) * (Cardinality(quoted) - 1)
           /\ Len(result.order) = Cardinality(wanted)
           /\ \A k \in wanted :
                 Cardinality({i \in 1..Len(result.order) :
                                 result.order[i] = k}) = 1

\* C15 happens: both venues quoted, and the result holds the pair that was
\* selected together with the reverse pair, whose net profit is negative
C15_Witness ==
    /\ bot = "live" /\ iteration >= 1 /\ ~Malformed(cfg)
    /\ result.opportunity # None
    /\ Cardinality(DOMAIN result.profits) = 2
    /\ \E k \in DOMAIN result.profits : RSign(result.profits[k]) < 0

\* C16: with the quotes, the borrow amount and the venue fees held fixed,
\* the net profit of every simulated pair is strictly decreasing in the
\* fixed execution cost and strictly decreasing in the borrowing fee rate,
\* in both bots; the net profits the bots computed in the scan are the
\* ones at the cost and fee rate of the source.
C16_CostMonotone ==
    /\ (bot = "demo" /\ cyc_evaluated) =>
          /\ Demo_cost_checks[quotes].monotone
          /\ \A k \in VenuePairs :
                Demo_cost_checks[quotes].grid[<<2, 1>>][k]
                   = Demo_nets[quotes][k]
    /\ (bot = "live" /\ cfg = TRADING_CONFIG /\ result.prices # None) =>
          /\ Live_cost_checks[quotes].monotone
          /\ result.profits = Live_cost_checks[quotes].grid[<<1, 1>>]

\* C16 happens: the live bot simulated both pairs of a scan with different
\* quotes under the configuration of the source
C16_Witness ==
    /\ bot = "live" /\ cfg = TRADING_CONFIG /\ result.prices # None
    /\ quotes["pancakeswap"] # quotes["biswap"]
    /\ Cardinality(DOMAIN result.profits) = 2

C18_NetIsNinetyCents ==
    (bot = "live" /\ cfg = TRADING_CONFIG /\ iteration >= 1
       /\ quotes["pancakeswap"] = 600000000
       /\ quotes["biswap"] = 602500000) =>
       /\ result.opportunity # None
       /\ result.opportunity.buy_router = "pancakeswap"
       /\ result.opportunity.sell_router = "biswap"
       /\ RGe(from_wei(result.opportunity.final_amount), Rat(1000975, 1000))
       /\ RLt(from_wei(result.opportunity.final_amount), Rat(1000985, 1000))
       /\ RGe(from_wei(result.profits[<<"pancakeswap", "biswap">>]),
              Rat(895, 1000))
       /\ RLt(from_wei(result.profits[<<"pancakeswap", "biswap">>]),
              Rat(905, 1000))

\* C18, amended: in that scan the pair returns 1000.65459375 BUSD
\* (1000.65 to two decimal places) and nets 0.57459375 BUSD (0.57), which
\* clears the pre-filter, and that pair is the Opportunity.
C18_NetIsFiftySevenCents ==
    (bot = "live" /\ cfg = TRADING_CONFIG /\ iteration >= 1
       /\ quotes["pancakeswap"] = 600000000
       /\ quotes["biswap"] = 602500000) =>
       /\ result.opportunity # None
       /\ result.opportunity.buy_router = "pancakeswap"
       /\ result.opportunity.sell_router = "biswap"
       /\ REq(from_wei(result.opportunity.intermediate_amount),
              Rat(16625, 10000))
       /\ REq(from_wei(result.opportunity.final_amount),
              RAdd(Rat(1000, 1), Rat(65459375, 100000000)))
       /\ RGe(from_wei(result.opportunity.final_amount), Rat(1000645, 1000))
       /\ RLt(from_wei(result.opportunity.final_amount), Rat(1000655, 1000))
       /\ result.opportunity.estimated_net_profit
             = result.profits[<<"pancakeswap", "biswap">>]
       /\ REq(from_wei(result.profits[<<"pancakeswap", "biswap">>]),
              Rat(57459375, 100000000))
       /\ RGe(from_wei(result.profits[<<"pancakeswap", "biswap">>]),
              Rat(565, 1000))
       /\ RLt(from_wei(result.profits[<<"pancakeswap", "biswap">>]),
              Rat(575, 1000))
       /\ RGt(from_wei(result.profits[<<"pancakeswap", "biswap">>]),
              cfg.min_profit)

\* C18 happens: the live bot scanned PancakeSwap at 600.00 and BiSwap at
\* 602.50 under the configuration of the source and goes on to execute
C18_Witness ==
    /\ bot = "live" /\ cfg = TRADING_CONFIG /\ pc = "l_execute"
    /\ quotes["pancakeswap"] = 600000000 /\ quotes["biswap"] = 602500000
    /\ result.opportunity # None

\* C19 as the specification states it: after the first log_price_scan or
\* log_arbitrage_opportunity call of a session that fails, the driver makes
\* no such call again.
C19_NoSinkCallAfterFailure == ~late_calls

\* C20 as the specification states it: every scan cycle that got a quote
\* from both venues computes the Opportunity, from the quotes of that
\* cycle, also when they are the quotes of the cycle before; so when such a
\* cycle reaches its sleep the evaluation has been made.
C20_EvaluatedEveryCycle ==
    (/\ pc \in {"d_sleep", "l_sleep"}
     /\ iteration >= 1
     /\ \A v \in Venues : quotes[v] # 0
     /\ ~Malformed(cfg)) =>
       /\ cyc_evaluated
       /\ bot = "demo" => opportunity = Demo_evaluations[quotes]
       /\ bot = "live" => result = Live_evaluations[cfg][quotes]

\* C21 as the specification states it, for a cycle that follows one with
\* the same quotes: when both venues quoted in the cycle before and quote
\* the same prices in this one, the price_changed value the cycle computes
\* for its log_price_scan call is false.
C21_UnchangedQuotesNotChanged ==
    [][(/\ pc \in {"d_fetch", "l_scan"}
        /\ pc' \in {"d_log_scan", "l_log_scan"}
        /\ db
        /\ iteration >= 1
        /\ \A v \in Venues : quotes[v] # 0
        /\ quotes' = quotes) => ~prices_changed']_vars

\* C22: outside dry-run mode an execution broadcasts the arbitrage
\* transaction only when the eth_call of that execution returned; an
\* execution whose eth_call did not return sends no arbitrage transaction
\* and gives back None.
C22_BroadcastOnlyAfterSimulation ==
    [][/\ ("executeArbitrageV2" \in txs' /\ "executeArbitrageV2" \notin txs)
            => (pc = "l_execute" /\ ~dry_run /\ simulated')
       /\ (pc = "l_execute" /\ ~dry_run /\ ~simulated')
            => /\ "executeArbitrageV2" \in txs' => "executeArbitrageV2" \in txs
               /\ pc' = "l_sleep" => tx_hash' = "None"]_vars

\* C22 happens: one execution passed its simulation and broadcast the
\* arbitrage transaction, and the execution of the next cycle has returned
\* None before its simulation passed
C22_Witness ==
    /\ bot = "live" /\ ~dry_run /\ pc = "l_sleep"
    /\ iteration = 2 /\ cyc_exec = 1
    /\ "executeArbitrageV2" \in txs
    /\ ~simulated /\ tx_hash = "None"

\* C23 as the specification states it: with the venue fees, the borrowing
\* fee rate, the gas cost and the threshold of TRADING_CONFIG on both sides,
\* find_arbitrage_opportunity returns an Opportunity exactly when
\* check_arbitrage does, with the same buy venue, sell venue and net profit.
C23_LiveMatchesDemo ==
    (/\ bot = "live" /\ cfg = TRADING_CONFIG
     /\ pc \in LiveLoopPcs /\ iteration >= 1
     /\ quotes \in QuotedMaps
     /\ REq(cfg.min_profit, MIN_PROFIT_THRESHOLD)) =>
       /\ (result.opportunity # None)
             <=> (Demo_evaluations_at_live_costs[quotes] # None)
       /\ result.opportunity # None =>
            /\ Demo_dex(result.opportunity.buy_router)
                  = Demo_evaluations_at_live_costs[quotes].buy_dex
            /\ Demo_dex(result.opportunity.sell_router)
                  = Demo_evaluations_at_live_costs[quotes].sell_dex
            /\ result.opportunity.estimated_net_profit
                  = to_wei_signed(Demo_evaluations_at_live_costs[quotes].net)

\* C24: log_arbitrage_opportunity is called only with the id that the
\* log_price_scan call of the same cycle returned.  When the call is about
\* to be made there is a database and scan_id is the id of the newest
\* price_scans row; a cycle that goes past its quotes starts with no id;
\* and scan_id gets an id only as the id of the row that a log_price_scan
\* call has just inserted.
C24_OpportunityLoggedWithCycleScan ==
    /\ [](pc \in {"d_log_opp", "l_log_opp"} =>
             db /\ scan_id # 0 /\ scan_id = db_scans)
    /\ [][/\ (pc \in {"d_fetch", "l_scan"} /\ pc' \notin {"d_sleep", "stopped"})
               => scan_id' = 0
          /\ (scan_id' # scan_id /\ scan_id' # 0)
               => /\ pc \in {"d_log_scan", "l_log_scan"}
                  /\ db_scans' = db_scans + 1
                  /\ scan_id' = db_scans'
          /\ cyc_opp_logged' > cyc_opp_logged
               => pc \in {"d_log_opp", "l_log_opp"}]_vars

\* C24 happens: in the second cycle the opportunity is about to be logged
\* with the id of the second scan
C24_Witness ==
    /\ pc \in {"d_log_opp", "l_log_opp"}
    /\ iteration = 2 /\ scan_id = 2 /\ opportunity # None

\* C25 as the specification states it: at every point of the live bot's scan
\* loop executions_successful <= executions_attempted = opportunities_found
\* <= iteration, and executions_successful is 0 in dry-run mode.
C25_AttemptedEqualsFound ==
    (bot = "live" /\ pc \in LiveLoopPcs) =>
       /\ executions_successful <= executions_attempted
       /\ executions_attempted = opportunities_found
       /\ opportunities_found <= iteration
       /\ dry_run => executions_successful = 0

\* C25, amended: at every point of the live bot's scan loop
\* executions_successful <= executions_attempted <= opportunities_found
\* <= iteration, the opportunity just counted being the only one not yet
\* attempted; the two counters are equal whenever the cycle is not between
\* the count and the attempt (at the scan, the scan's logging and the
\* sleep); and executions_successful is 0 in dry-run mode.
C25_CountersOrdered ==
    (bot = "live" /\ pc \in LiveLoopPcs) =>
       /\ executions_successful <= executions_attempted
       /\ executions_attempted <= opportunities_found
       /\ opportunities_found <= executions_attempted + 1
       /\ opportunities_found <= iteration
       /\ (executions_attempted = opportunities_found)
             <=> pc \in {"l_scan", "l_log_scan", "l_sleep"}
       /\ dry_run => executions_successful = 0

\* C25 happens: two cycles found and attempted an opportunity and one of
\* the two executions succeeded
C25_Witness ==
    /\ bot = "live" /\ pc = "l_sleep" /\ ~dry_run
    /\ iteration = 2 /\ opportunities_found = 2
    /\ executions_attempted = 2 /\ executions_successful = 1

\* C26 as the specification states it: every database operation puts the
\* connection it took back into the pool before it ends, however it ends,
\* so between operations no connection is checked out.
C26_PoolBalanced == conn_out = 0

\* C27: in the pullback simulation no position is held longer than
\* MAX_HOLD_DAYS days.  After the exit check of a day an open position was
\* entered fewer than MAX_HOLD_DAYS days before that day; so it was for the
\* day before when the next day begins, and when the loop has ended.
C27_HeldLessThanMaxDays ==
    (bot = "pullback" /\ position # None) =>
       IF pc = "p_entry"
       THEN day - position.entry_day < MAX_HOLD_DAYS
       ELSE (day - 1) - position.entry_day < MAX_HOLD_DAYS

\* C27 happens: a position held for MAX_HOLD_DAYS days has just been exited
\* by the time stop
C27_Witness ==
    /\ bot = "pullback" /\ pc = "p_entry"
    /\ exit_reason = "TIME STOP" /\ position = None
    /\ trades = 2

\* C28 as the specification states it: when a position is exited, the USDT
\* balance after the exit is the USDT balance held just before it plus what
\* the exit swap returned.
C28_ExitConservesFunds ==
    [][(/\ bot = "pullback" /\ pc = "p_exit"
        /\ position # None /\ position' = None) =>
          REq(holdings'["USDT"],
              RAdd(holdings["USDT"],
                   execute_swap(holdings[position.token],
                                Rat(current_prices'[position.token], 1),
                                ROne)))]_vars

\* C29: in the CEX-DEX scanner, every scan that has printed its result
\* reported as best a token of greatest absolute spread among the tokens
\* that have both a CEX and a DEX price and an absolute spread of at most
\* MAX_VALID_SPREAD, it reported a best exactly when that greatest absolute
\* spread is at least MIN_SPREAD, and no token with an absolute spread above
\* MAX_VALID_SPREAD is in the result.
C29_BestIsGreatestValidSpread ==
    (bot = "scanner" /\ pc = "s_sleep") =>
       LET priced     == {k \in ScanKeys :
                             /\ Scan_TOKENS[k].binance \in DOMAIN binance_prices
                             /\ k \in DOMAIN dex_prices}
           spread(k)  == Scan_spread(binance_prices[Scan_TOKENS[k].binance],
                                     dex_prices[k])
           eligible   == {k \in priced :
                             ~RGt(RAbs(spread(k)), MAX_VALID_SPREAD)}
           greatest   == {k \in eligible : \A j \in eligible :
                             RGe(RAbs(spread(k)), RAbs(spread(j)))}
           reportable == {k \in greatest :
                             RGe(RAbs(spread(k)), MIN_SPREAD)}
       IN  /\ \A i \in DOMAIN opps : opps[i].key \in eligible
           /\ IF reportable # {}
              THEN scan_best # None /\ scan_best.key \in reportable
              ELSE scan_best = None

\* C30: in the CEX-DEX scanner, at every point of a run no chain has had
\* more than one Web3 client or more than one router contract constructed,
\* and every executor thread whose get_router call has returned holds the
\* client and the router of the chain of its token, which are the cached
\* ones.
C30_CachesBuiltOnce ==
    bot = "scanner" =>
       /\ \A c \in ChainNames :
             constructed[c].w3 <= 1 /\ constructed[c].router <= 1
       /\ \A k \in DOMAIN threads :
             threads[k].pc \in {"price", "done"} =>
                /\ threads[k].w3 # None /\ threads[k].router # None
                /\ threads[k].w3.chain = Scan_TOKENS[k].chain
                /\ threads[k].router.chain = Scan_TOKENS[k].chain
                /\ threads[k].w3 = W3_CACHE[Scan_TOKENS[k].chain]
                /\ threads[k].router = ROUTER_CACHE[Scan_TOKENS[k].chain]

\* in the second scan two threads of one chain run get_router at the same
\* time and both return, with one client constructed for the chain
C30_Witness ==
    /\ bot = "scanner" /\ pc = "s_scan" /\ scan_num = 2
    /\ threads["ETH_BSC"].pc = "price" /\ threads["BNB_BSC"].pc = "price"
    /\ threads["ETH_BSC"].w3 = threads["BNB_BSC"].w3
    /\ constructed["BSC"] = [w3 |-> 1, router |-> 1]

=============================================================================
